---- MODULE Spec2Model ----
(***************************************************************************)
(* Model of the query pipeline of the AI Dashboard back end:               *)
(*   SQLService.validate_query / execute_query / explain_query             *)
(*   QueryProcessor.process_query and the POST /query route handler.       *)
(* SQL text is a sequence of one-character strings, so that upper-casing,  *)
(* word boundaries, trimming and substring tests are computed as the code  *)
(* computes them.                                                           *)
(***************************************************************************)
EXTENDS Integers, Sequences, FiniteSets, TLC

(***************************************************************************)
(* Bounds of the model.                                                    *)
(***************************************************************************)
\* longest run of body pieces appended to a head when enumerating SQL inputs
MaxPieces == 2
\* number of requests the model lets arrive
MaxRequests == 2
\* largest number of rows the queried relation holds
MaxTableRows == 150

\* the most whitespace characters put before or after a prompt
MaxPad == 1
\* the most columns a result set has
MaxColumns == 2
\* settings.RATE_LIMIT_PER_MINUTE, as the deployment sets it
RATE_LIMIT_PER_MINUTE == 2
\* number of rate_limit calls the model lets happen
MaxRateCalls == 5
\* seconds between two readings of the clock that differ
ClockStep == 30
\* the last second the clock reaches
MaxClock == 120

(***************************************************************************)
(* Characters and strings.                                                 *)
(***************************************************************************)
LowerLetters == <<"a","b","c","d","e","f","g","h","i","j","k","l","m",
                  "n","o","p","q","r","s","t","u","v","w","x","y","z">>

UpperLetters == <<"A","B","C","D","E","F","G","H","I","J","K","L","M",
                  "N","O","P","Q","R","S","T","U","V","W","X","Y","Z">>

Digits == <<"0","1","2","3","4","5","6","7","8","9">>

Range(f) == {f[i] : i \in DOMAIN f}

LowerChars == Range(LowerLetters)

\* the upper-case letter of each lower-case letter
UpperOf == [c \in LowerChars |-> UpperLetters[CHOOSE i \in DOMAIN LowerLetters : LowerLetters[i] = c]]

\* str.upper() on one character
UpperChar(c) == IF c \in LowerChars THEN UpperOf[c] ELSE c

\* str.upper()
Upper(s) == [i \in 1..Len(s) |-> UpperChar(s[i])]

DigitChars == Range(Digits)

WordChars == LowerChars \cup Range(UpperLetters) \cup DigitChars \cup {"_"}

\* the regex class \w
IsWordChar(c) == c \in WordChars

\* the characters str.strip() removes
Whitespace == {" ", "\t", "\n"}

\* s[i:i+len(t)] == t
OccursAt(s, i, t) ==
  /\ i >= 1
  /\ i + Len(t) - 1 <= Len(s)
  /\ SubSeq(s, i, i + Len(t) - 1) = t

\* t in s
Contains(s, t) == \E i \in 1..Len(s) : OccursAt(s, i, t)

\* the regex assertion \b at the gap before position p of s
WordBoundary(s, p) ==
  LET before == p - 1 >= 1 /\ p - 1 <= Len(s) /\ IsWordChar(s[p - 1])
      after  == p >= 1 /\ p <= Len(s) /\ IsWordChar(s[p])
  IN before # after

\* str.strip()
Strip(s) ==
  LET keep == {i \in 1..Len(s) : s[i] \notin Whitespace}
  IN IF keep = {} THEN <<>>
     ELSE SubSeq(s, CHOOSE i \in keep : \A j \in keep : i <= j,
                    CHOOSE i \in keep : \A j \in keep : j <= i)

\* str.startswith
StartsWith(s, t) == OccursAt(s, 1, t)

(***************************************************************************)
(* SQLService.DANGEROUS_PATTERNS                                            *)
(***************************************************************************)
MutatingKeywords ==
  { <<"D","R","O","P">>, <<"D","E","L","E","T","E">>,
    <<"T","R","U","N","C","A","T","E">>, <<"U","P","D","A","T","E">>,
    <<"I","N","S","E","R","T">>, <<"A","L","T","E","R">>,
    <<"C","R","E","A","T","E">>, <<"R","E","P","L","A","C","E">> }

ExecKeywords ==
  { <<"E","X","E","C">>, <<"E","X","E","C","U","T","E">>, <<"C","A","L","L">> }

SeparatorTokens == { <<";">>, <<"-","-">>, <<"/","*">>, <<"*","/">> }

\* the keywords searched without the \b assertions around them
SearchSubstring(s, kws) ==
  \E i \in 1..Len(s) : \E k \in kws : OccursAt(s, i, k)

\* re.search(r'\b(k1|k2|...)\b', s)
SearchWord(s, kws) ==
  \E i \in 1..Len(s) : \E k \in kws :
     /\ OccursAt(s, i, k)
     /\ WordBoundary(s, i)
     /\ WordBoundary(s, i + Len(k))

\* re.search(r'(t1|t2|...)', s)
SearchToken(s, toks) == \E t \in toks : Contains(s, t)

\* re.search(DANGEROUS_PATTERNS[n], s)
PatternMatches(n, s) ==
  CASE n = 1 -> SearchWord(s, MutatingKeywords)
    [] n = 2 -> SearchWord(s, ExecKeywords)
    [] OTHER -> SearchToken(s, SeparatorTokens)

NumPatterns == 3

SelectKw == <<"S","E","L","E","C","T">>

LimitKw == <<"L","I","M","I","T">>

\* the text ' LIMIT 100' the validator appends
DefaultLimitSuffix == <<" ","L","I","M","I","T"," ","1","0","0">>

DefaultLimit == 100

\* the patterns searched in the text as given, not upper-cased
PatternTextAsGiven(sql) == sql

\* the text the pattern loop searches: sql_upper
PatternText(sql) == Upper(sql)

\* SELECT looked for anywhere in the text instead of at its start
LeadsWithSelectAnywhere(sql_upper) == Contains(sql_upper, SelectKw)

\* the test for a SELECT query
LeadsWithSelect(sql_upper) == StartsWith(Strip(sql_upper), SelectKw)

\* the default limit appended whatever the text holds
LacksLimitAlways(sql_upper) == TRUE

\* the test that decides whether the default limit is appended
LacksLimit(sql_upper) == ~Contains(sql_upper, LimitKw)

\* the upper-cased copy returned in place of the text
KeptTextUpper(sql) == Upper(sql)

\* the text validate_query hands back: sql as given, sql_upper is only searched
KeptText(sql) == sql

\* SQLService.validate_query: (False, reason) or (True, sql)
validate_query(sql) ==
  LET sql_upper == Upper(sql)
      hits == {n \in 1..NumPatterns : PatternMatches(n, PatternText(sql))}
  IN IF hits # {}
       THEN [valid |-> FALSE, sql |-> <<>>,
             reason |-> <<"forbidden pattern", CHOOSE n \in hits : \A m \in hits : n <= m>>]
     ELSE IF ~LeadsWithSelect(sql_upper)
       THEN [valid |-> FALSE, sql |-> <<>>, reason |-> <<"only SELECT", 0>>]
     ELSE IF LacksLimit(sql_upper)
       THEN [valid |-> TRUE, sql |-> KeptText(sql) \o DefaultLimitSuffix, reason |-> <<"", 0>>]
     ELSE [valid |-> TRUE, sql |-> KeptText(sql), reason |-> <<"", 0>>]

(***************************************************************************)
(* What the database makes of a statement: its LIMIT clause, if any.       *)
(***************************************************************************)
\* a LIMIT clause starts at position i: the word LIMIT, whitespace, a digit
LimitClauseAt(s, i) ==
  /\ i + 6 <= Len(s)
  /\ Upper(SubSeq(s, i, i + 4)) = LimitKw
  /\ WordBoundary(s, i)
  /\ s[i + 5] \in Whitespace
  /\ s[i + 6] \in DigitChars

LimitPositions(s) == {i \in 1..Len(s) : LimitClauseAt(s, i)}

HasLimitClause(s) == LimitPositions(s) # {}

DigitValue(c) == (CHOOSE i \in DOMAIN Digits : Digits[i] = c) - 1

RECURSIVE NumberFrom(_, _, _)
\* the decimal number whose digits start at position i of s
NumberFrom(s, i, acc) ==
  IF i <= Len(s) /\ s[i] \in DigitChars
    THEN NumberFrom(s, i + 1, 10 * acc + DigitValue(s[i]))
    ELSE acc

\* the row limit of the last LIMIT clause of a statement that has one
RowCap(s) ==
  LET ps == LimitPositions(s)
      i  == CHOOSE i \in ps : \A j \in ps : j <= i
  IN NumberFrom(s, i + 6, 0)

Min(a, b) == IF a <= b THEN a ELSE b

\* rows a SELECT returns from a relation of n rows
RowsReturned(s, n) == IF HasLimitClause(s) THEN Min(n, RowCap(s)) ELSE n

(***************************************************************************)
(* Inputs.                                                                 *)
(***************************************************************************)
\* leading texts of the enumerated SQL inputs
Heads ==
  { <<>>,   \* ''
    <<"S","E","L","E","C","T"," ">>,   \* 'SELECT '
    <<"\t","s","e","l","e","c","t","\n">>,   \* '\tselect\n'
    <<"S","e","l","e","c","t"," ","x">> }   \* 'Select x'

\* body pieces of the enumerated SQL inputs
Pieces ==
  { <<" ">>,   \* ' '
    <<"x">>,   \* 'x'
    <<"_">>,   \* '_'
    <<"1">>,   \* '1'
    <<";">>,   \* ';'
    <<"-","-">>,   \* '--'
    <<"/","*">>,   \* '/*'
    <<"*","/">>,   \* '*/'
    <<"d","r","o","p">>,   \* 'drop'
    <<"D","E","L","E","T","E">>,   \* 'DELETE'
    <<"T","r","u","n","c","a","t","e">>,   \* 'Truncate'
    <<"u","p","d","a","t","e">>,   \* 'update'
    <<"I","N","S","E","R","T">>,   \* 'INSERT'
    <<"a","l","t","e","r">>,   \* 'alter'
    <<"C","R","E","A","T","E">>,   \* 'CREATE'
    <<"r","e","p","l","a","c","e">>,   \* 'replace'
    <<"e","x","e","c">>,   \* 'exec'
    <<"E","X","E","C","U","T","E">>,   \* 'EXECUTE'
    <<"c","a","l","l">>,   \* 'call'
    <<"l","i","m","i","t">>,   \* 'limit'
    <<"s","e","l","e","c","t">>,   \* 'select'
    <<" ","L","I","M","I","T"," ","5">>,   \* ' LIMIT 5'
    <<"'","d","r","o","p","'">> }   \* "'drop'"

\* SQL texts the LLM capability may return
GeneratedSQL ==
  { <<"S","E","L","E","C","T"," ","x">>,   \* 'SELECT x'
    <<"D","R","O","P"," ","T","A","B","L","E"," ","s","a","l","e","s",";"," ","S","E","L","E","C","T"," ","1">>,   \* 'DROP TABLE sales; SELECT 1'
    <<"S","E","L","E","C","T"," ","x"," ","L","I","M","I","T"," ","1","0","1">> }   \* 'SELECT x LIMIT 101'

\* the text explain_query puts before the validated SQL
ExplainPrefix ==
  <<"E","X","P","L","A","I","N"," ","(","F","O","R","M","A","T"," ","J","S","O","N",","," ","A","N","A","L","Y","Z","E"," ","F","A","L","S","E",")"," ">>

\* f"SET statement_timeout = {int(timeout * 1000)}" with timeout = max_execution_time
SetTimeoutText ==
  <<"S","E","T"," ","s","t","a","t","e","m","e","n","t","_","t","i","m","e","o","u","t"," ","="," ","3","0","0","0","0">>

RECURSIVE Flatten(_)
Flatten(ss) == IF ss = <<>> THEN <<>> ELSE Head(ss) \o Flatten(Tail(ss))

\* a head followed by at most MaxPieces body pieces
SqlInputs ==
  { h \o Flatten(ps) : h \in Heads,
                       ps \in UNION { [1..n -> Pieces] : n \in 0..MaxPieces } }

(***************************************************************************)
(* Requests, prompts and settings.                                         *)
(***************************************************************************)
Procs == 1..MaxRequests

Modes == {"simple", "advanced", "auto"}

\* a prompt text, described by what the code looks at: `lead` whitespace
\* characters, `core` characters from the first to the last one that is not
\* whitespace, `trail` whitespace characters, the number of tokens the
\* tokenizer finds in the trimmed text, and whether it holds a special token
PromptText(lead, core, trail, tokens, special) ==
  [lead |-> lead, core |-> core, trail |-> trail, tokens |-> tokens, special |-> special]

\* the empty text
NoPromptText == PromptText(0, 0, 0, 0, FALSE)

USE_ADVANCED_MODE_THRESHOLD == 10000

\* "total sales by region"
ShortPrompt == PromptText(0, 21, 0, 4, FALSE)

\* a prompt of more tokens than the threshold
LongPrompt == PromptText(0, 9000, 0, USE_ADVANCED_MODE_THRESHOLD + 1, FALSE)

\* "<|endoftext|>"
SpecialPrompt == PromptText(0, 13, 0, 0, TRUE)

Prompts == {ShortPrompt, LongPrompt, SpecialPrompt}

\* QueryRequest
Request(prompt, mode, use_cache) ==
  [prompt |-> prompt, mode |-> mode, use_cache |-> use_cache]

\* the requests the model lets arrive
RequestInputs ==
  { Request(ShortPrompt, "auto", TRUE),
    Request(ShortPrompt, "advanced", TRUE),
    Request(LongPrompt, "auto", TRUE),
    Request(SpecialPrompt, "auto", TRUE),
    Request(SpecialPrompt, "simple", FALSE) }

\* the tokenizer refuses text that holds a special token
CountRaises(prompt) == prompt.special

\* LLMService.count_tokens
count_tokens(prompt) == prompt.tokens

\* _determine_mode choosing advanced from the threshold on
determine_mode_from_threshold(request) ==
  IF request.mode # "auto" THEN request.mode
  ELSE IF count_tokens(request.prompt) >= USE_ADVANCED_MODE_THRESHOLD THEN "advanced"
  ELSE "simple"

\* QueryProcessor._determine_mode (for a prompt the tokenizer accepts)
determine_mode(request) ==
  IF request.mode # "auto" THEN request.mode
  ELSE IF count_tokens(request.prompt) > USE_ADVANCED_MODE_THRESHOLD THEN "advanced"
  ELSE "simple"

\* _determine_mode raises: only the auto branch counts tokens
DetermineRaises(request) == request.mode = "auto" /\ CountRaises(request.prompt)

(***************************************************************************)
(* QueryRequest: the validation of the prompt field.                       *)
(***************************************************************************)
\* Field(min_length=1, max_length=10000) of QueryRequest.prompt
MinPromptLength == 1

MaxPromptLength == 10000

\* len(text)
PromptLen(text) == text.lead + text.core + text.trail

\* str.strip on a prompt text
StripPrompt(text) == [text EXCEPT !.lead = 0, !.trail = 0]

\* the text is empty: `not v`
IsEmptyText(text) == PromptLen(text) = 0

\* validate_prompt returning the value as it was given
validate_prompt_as_given(v) ==
  IF IsEmptyText(StripPrompt(v))
    THEN [ok |-> FALSE, value |-> NoPromptText, error |-> "Prompt cannot be empty"]
    ELSE [ok |-> TRUE, value |-> v, error |-> ""]

\* QueryRequest.validate_prompt
validate_prompt(v) ==
  IF IsEmptyText(StripPrompt(v))
    THEN [ok |-> FALSE, value |-> NoPromptText, error |-> "Prompt cannot be empty"]
    ELSE [ok |-> TRUE, value |-> StripPrompt(v), error |-> ""]

\* the outcome of QueryRequest(**fields): the request, or the validation error
Accepted(request) == [accepted |-> TRUE, request |-> request, error |-> ""]

Rejected(error) ==
  [accepted |-> FALSE, request |-> Request(NoPromptText, "", FALSE), error |-> error]

\* QueryRequest(prompt=..., mode=..., use_cache=...): the length constraints of
\* the field are checked on the text as given, then validate_prompt runs
QueryRequestInit(fields) ==
  IF PromptLen(fields.prompt) < MinPromptLength
    THEN Rejected("String should have at least 1 character")
  ELSE IF PromptLen(fields.prompt) > MaxPromptLength
    THEN Rejected("String should have at most 10000 characters")
  ELSE IF ~validate_prompt(fields.prompt).ok
    THEN Rejected(validate_prompt(fields.prompt).error)
  ELSE Accepted(Request(validate_prompt(fields.prompt).value, fields.mode,
                        fields.use_cache))

\* the widths of whitespace put before and after a prompt
Pads == 0..MaxPad

\* the lengths of the trimmed texts tried: empty, shortest, around the maximum
CoreLengths ==
  {0, MinPromptLength, MaxPromptLength - 1, MaxPromptLength, MaxPromptLength + 1}

\* the token counts tried for a trimmed text of `core` characters: a short
\* text has as many tokens as characters, a long one has a count around the
\* threshold
TokenCounts(core) ==
  IF core <= MinPromptLength THEN {core}
  ELSE { USE_ADVANCED_MODE_THRESHOLD - 1, USE_ADVANCED_MODE_THRESHOLD,
         USE_ADVANCED_MODE_THRESHOLD + 1 }

\* the prompt texts a client may send
RawPrompts ==
  UNION { { PromptText(l, c, r, n, FALSE) : l \in Pads, r \in Pads, n \in TokenCounts(c) } :
          c \in CoreLengths }

\* the keyword arguments a client may send
RawRequests ==
  { Request(text, m, TRUE) : text \in RawPrompts \cup {SpecialPrompt}, m \in Modes }

Providers == {"groq", "openai"}

\* LLMService._calculate_cost returns a float with a fractional part
CostIsFractional(prov) == prov = "openai"

(***************************************************************************)
(* QueryResponse                                                           *)
(***************************************************************************)
\* the fields of QueryResponse that have no default
RequiredFields == {"success", "query_id", "status", "execution_time"}

\* QueryResponse(**fields) validates
ConstructOk(fields) == RequiredFields \subseteq fields

NoResp ==
  [success |-> FALSE, query_id |-> 0, status |-> "none", has_sql |-> FALSE,
   sql |-> <<>>, has_data |-> FALSE, rows |-> 0, error |-> "", error_type |-> "",
   has_chart |-> FALSE, has_tokens |-> FALSE]

\* the handler of process_query answering without the request's query_id
ProcessFailureNoId(query_id, err) ==
  [success |-> FALSE, query_id |-> 0, status |-> "failed", has_sql |-> FALSE,
   sql |-> <<>>, has_data |-> FALSE, rows |-> 0, error |-> err, error_type |-> "",
   has_chart |-> FALSE, has_tokens |-> FALSE]

\* the response built by the handler of process_query
ProcessFailure(query_id, err) ==
  [success |-> FALSE, query_id |-> query_id, status |-> "failed", has_sql |-> FALSE,
   sql |-> <<>>, has_data |-> FALSE, rows |-> 0, error |-> err, error_type |-> "",
   has_chart |-> FALSE, has_tokens |-> FALSE]

\* the handler of _process_simple_query answering success=True
SimpleFailureAsSuccess(query_id, err, etype) ==
  [success |-> TRUE, query_id |-> query_id, status |-> "success", has_sql |-> FALSE,
   sql |-> <<>>, has_data |-> FALSE, rows |-> 0, error |-> err, error_type |-> etype,
   has_chart |-> FALSE, has_tokens |-> FALSE]

\* the handler of _process_simple_query passing on the token usage it has
SimpleFailureKeepsTokens(query_id, err, etype) ==
  [success |-> FALSE, query_id |-> query_id, status |-> "failed", has_sql |-> FALSE,
   sql |-> <<>>, has_data |-> FALSE, rows |-> 0, error |-> err, error_type |-> etype,
   has_chart |-> FALSE, has_tokens |-> TRUE]

\* the response built by the handler of _process_simple_query
SimpleFailure(query_id, err, etype) ==
  [success |-> FALSE, query_id |-> query_id, status |-> "failed", has_sql |-> FALSE,
   sql |-> <<>>, has_data |-> FALSE, rows |-> 0, error |-> err, error_type |-> etype,
   has_chart |-> FALSE, has_tokens |-> FALSE]

\* the response built at the end of _process_simple_query
SimpleSuccess(query_id, sql, n) ==
  [success |-> TRUE, query_id |-> query_id, status |-> "success", has_sql |-> TRUE,
   sql |-> sql, has_data |-> TRUE, rows |-> n, error |-> "", error_type |-> "",
   has_chart |-> FALSE, has_tokens |-> TRUE]

\* the keyword arguments of the two QueryResponse calls of the route handler
RouteSuccessFields == {"query_id", "prompt", "mode", "query", "success", "error"}

RouteFailureFields == {"query_id", "prompt", "mode", "success", "error"}

NoRouteOut == [kind |-> "none", query_id |-> 0, success |-> FALSE]

\* routes.process_query after processor.process_query returned
RouteHandler(route_id) ==
  IF ConstructOk(RouteSuccessFields)
    THEN [kind |-> "response", query_id |-> route_id, success |-> TRUE]
  ELSE IF ConstructOk(RouteFailureFields)
    THEN [kind |-> "response", query_id |-> route_id, success |-> FALSE]
  ELSE [kind |-> "unhandled", query_id |-> 0, success |-> FALSE]

(***************************************************************************)
(* Chart configuration: the result set, the LLM's reply and the configs    *)
(* built from them.                                                        *)
(***************************************************************************)
OutputFormats == {"table", "chart"}

\* the Python type of a column's value in the first row; a date-like str is
\* kept apart from other strs, Decimal stands for what json.dumps refuses
ColumnKinds == {"int", "str", "datestr", "Decimal"}

\* the rows execute_query returned: how many, and the kinds of their columns
ResultSet(rows, columns) == [rows |-> rows, columns |-> columns]

ResultSets ==
  {ResultSet(0, <<>>)} \cup
  { ResultSet(1, cols) : cols \in UNION { [1..k -> ColumnKinds] : k \in 0..MaxColumns } }

\* what the request says about the chart: output_format, and whether
\* chart_width and chart_height were given
ChartCall(format, data, sized) == [format |-> format, data |-> data, sized |-> sized]

ChartCalls ==
  { ChartCall(f, d, s) : f \in OutputFormats, d \in ResultSets, s \in BOOLEAN }

NoChartCall == ChartCall("none", ResultSet(0, <<>>), FALSE)

\* json.dumps(sample_data, indent=2) accepts every value of the rows
JsonSerializable(data) == \A i \in DOMAIN data.columns : data.columns[i] # "Decimal"

\* the positions of the columns, in order
Positions(cols) == [i \in 1..Len(cols) |-> i]

\* _analyze_data_for_chart: numeric_columns
NumericColumns(cols) == SelectSeq(Positions(cols), LAMBDA i : cols[i] = "int")

\* _analyze_data_for_chart: categorical_columns
CategoricalColumns(cols) ==
  SelectSeq(Positions(cols), LAMBDA i : cols[i] \in {"str", "Decimal"})

\* _analyze_data_for_chart: date_columns
DateColumns(cols) == SelectSeq(Positions(cols), LAMBDA i : cols[i] = "datestr")

\* a chart config dict: who built it, its chart_type, the columns of its axes
\* (0: a name that is no column), whether it has a title, whether it has a
\* width and height that are numbers, whether its other entries pass ChartConfig
Config(source, chart_type, x_axis, y_axis, title, sized, valid) ==
  [source |-> source, chart_type |-> chart_type, x_axis |-> x_axis, y_axis |-> y_axis,
   title |-> title, sized |-> sized, valid |-> valid]

\* no dict: the function raised
RaisedConfig(etype) == Config("raised", etype, 0, 0, FALSE, FALSE, FALSE)

\* what the LLM answers to the chart prompt: it raises, text that is no JSON,
\* a JSON document that is no object, or an object with or without a title,
\* with or without width and height, whose entries ChartConfig accepts or not
ChartReply(what, title, sized, valid) ==
  [what |-> what, title |-> title, sized |-> sized, valid |-> valid]

ChartReplies ==
  { ChartReply(w, FALSE, FALSE, FALSE) : w \in {"raises", "not json", "json array"} } \cup
  { ChartReply("object", ti, s, v) : ti \in BOOLEAN, s \in BOOLEAN, v \in BOOLEAN }

\* LLMService._create_fallback_config for rows that are not empty
create_fallback_config(data, sized) ==
  LET cols == data.columns
      num  == NumericColumns(cols)
      cat  == CategoricalColumns(cols)
  IN IF Len(num) >= 2
       THEN Config("heuristic", "scatter", num[2], num[1], TRUE, sized, TRUE)
     ELSE IF Len(num) = 1 /\ Len(cat) > 0
       THEN Config("heuristic", "bar", cat[1], num[1], TRUE, sized, TRUE)
     ELSE IF Len(num) = 1
       THEN Config("heuristic", "histogram", num[1], 0, TRUE, sized, TRUE)
     ELSE IF Len(cols) = 0
       THEN RaisedConfig("IndexError")
     ELSE Config("heuristic", "bar", 1, IF Len(cols) > 1 THEN 2 ELSE 1, TRUE, sized, TRUE)

\* LLMService._validate_and_enhance_chart_config on the parsed object: the
\* axes are set to columns of the rows, chart_type to a known type, width and
\* height to the request's when the object has none; the title is left alone.
\* The reply's axes are taken to name no column, so both are replaced; an
\* entry that makes this function raise counts as one ChartConfig refuses
validate_and_enhance_chart_config(reply, data, sized) ==
  LET cols == data.columns
      num  == NumericColumns(cols)
  IN IF Len(cols) = 0
       THEN RaisedConfig("IndexError")
       ELSE Config("llm", "bar", 1,
                   IF Len(num) > 0 THEN num[1] ELSE IF Len(cols) > 1 THEN 2 ELSE 1,
                   reply.title, reply.sized \/ sized, reply.valid)

\* LLMService.generate_chart_config after the LLM call, for rows that are not
\* empty: only a JSONDecodeError is handled, by the fallback config
generate_chart_config(reply, data, sized) ==
  IF reply.what = "raises" THEN RaisedConfig("LLMError")
  ELSE IF reply.what = "not json" THEN create_fallback_config(data, sized)
  ELSE IF reply.what = "json array" THEN RaisedConfig("AttributeError")
  ELSE validate_and_enhance_chart_config(reply, data, sized)

\* QueryProcessor._create_emergency_chart_fallback for rows that are not empty
create_emergency_chart_fallback(data) ==
  LET cols == data.columns
  IN IF Len(cols) = 0
       THEN RaisedConfig("IndexError")
       ELSE Config("emergency", "bar", 1, IF Len(cols) > 1 THEN 2 ELSE 1, TRUE, TRUE, TRUE)

\* the required_fields test of _process_simple_query, then ChartConfig(**config)
ChartConfigOk(config) ==
  /\ config.source # "raised"
  /\ config.title
  /\ config.sized
  /\ config.valid

\* the chart the request ends with: chart_config (by who built it, "none" when
\* absent) and chart_fallback_used
Chart(config, fallback_used) == [config |-> config, fallback_used |-> fallback_used]

NoChart == Chart("none", FALSE)

\* the except block of the chart step: the emergency config, or no config
ChartFallback(data) ==
  IF ChartConfigOk(create_emergency_chart_fallback(data))
    THEN Chart("emergency", TRUE)
    ELSE Chart("none", TRUE)

\* the chart step of _process_simple_query, given what generate_chart_config
\* returned or raised
ChartStep(generated, data) ==
  IF ChartConfigOk(generated) THEN Chart(generated.source, FALSE) ELSE ChartFallback(data)

\* the generators a chart step went through, given whether the LLM was asked
Tried(asked, reply, chart) ==
  (IF asked THEN <<"llm">> ELSE <<>>)
    \o (IF asked /\ reply.what = "not json" THEN <<"heuristic">> ELSE <<>>)
    \o (IF chart.fallback_used THEN <<"emergency">> ELSE <<>>)

\* the QueryResponse at the end of _process_simple_query, or the one its
\* except block builds when that construction fails
ChartResponse(ok, data, chart) ==
  IF ok
    THEN [success |-> TRUE, status |-> "success", has_data |-> TRUE, rows |-> data.rows,
          chart_config |-> chart.config, chart_fallback_used |-> chart.fallback_used,
          error_type |-> ""]
    ELSE [success |-> FALSE, status |-> "failed", has_data |-> FALSE, rows |-> 0,
          chart_config |-> "none", chart_fallback_used |-> FALSE,
          error_type |-> "ValidationError"]

NoChartResponse ==
  [success |-> FALSE, status |-> "none", has_data |-> FALSE, rows |-> 0,
   chart_config |-> "none", chart_fallback_used |-> FALSE, error_type |-> ""]

(***************************************************************************)
(* HealthCheckService: the checks, their results and check_all.            *)
(***************************************************************************)
Services == {"database", "supabase", "llm", "redis"}

\* the settings check_all and the checks read: whether SUPABASE_URL,
\* SUPABASE_KEY and REDIS_URL are non-empty
HealthSettings ==
  [supabase_url : BOOLEAN, supabase_key : BOOLEAN, redis_url : BOOLEAN]

NoHealthSettings == [supabase_url |-> FALSE, supabase_key |-> FALSE, redis_url |-> FALSE]

\* the dict a check returns: its 'healthy', its keys and its 'error' text
HealthDict(healthy, keys, error) ==
  [dict |-> TRUE, healthy |-> healthy, keys |-> keys, error |-> error]

\* what gather collects for a check that an exception left: the exception
Escaped(exc) == [dict |-> FALSE, healthy |-> FALSE, keys |-> {}, error |-> exc]

NoHealthResult == Escaped("")

\* how a check goes: the service answers, it cannot be reached or refuses,
\* or the check's task is cancelled at one of its awaits (CancelledError is
\* no Exception, so no `except Exception` catches it)
DatabaseOutcomes == {"ok", "unreachable", "cancelled"}

SupabaseOutcomes == {"ok", "unreachable"}

RedisOutcomes == {"ok", "unreachable", "cancelled"}

LlmOutcomes == {"ok", "rejected", "unreachable", "init raises", "cancelled"}

\* HealthCheckService.check_database
check_database(outcome) ==
  IF outcome = "ok"
    THEN HealthDict(TRUE, {"healthy", "response_time_ms", "version", "database_size",
                           "table_count", "connection_string"}, "")
    ELSE HealthDict(FALSE, {"healthy", "error", "connection_string"}, "unreachable")

\* HealthCheckService.check_supabase
check_supabase(settings, outcome) ==
  IF ~settings.supabase_url \/ ~settings.supabase_key
    THEN HealthDict(FALSE, {"healthy", "error", "configured"}, "Supabase not configured")
  ELSE IF outcome = "ok"
    THEN HealthDict(TRUE, {"healthy", "response_time_ms", "url", "configured"}, "")
  ELSE HealthDict(FALSE, {"healthy", "error", "configured"}, "unreachable")

\* HealthCheckService.check_redis
check_redis(settings, outcome) ==
  IF ~settings.redis_url
    THEN HealthDict(FALSE, {"healthy", "error", "configured"}, "Redis not configured")
  ELSE IF outcome = "ok"
    THEN HealthDict(TRUE, {"healthy", "response_time_ms", "version", "used_memory",
                           "connected_clients", "configured"}, "")
  ELSE HealthDict(FALSE, {"healthy", "error", "configured"}, "unreachable")

\* _test_groq / _test_openai: the result dict, by 'success', its other keys
\* and its 'error'
test_provider(prov, outcome) ==
  IF outcome = "ok"
    THEN [success |-> TRUE, keys |-> {"model", "usage"}, error |-> ""]
  ELSE IF outcome = "rejected"
    THEN [success |-> FALSE,
          keys |-> IF prov = "groq" THEN {"error", "details"} ELSE {"error"},
          error |-> "API returned 401"]
  ELSE [success |-> FALSE, keys |-> {"error"}, error |-> "unreachable"]

\* the keys check_llm writes itself when its try block reaches the return
LlmKeys ==
  {"healthy", "provider", "model", "response_time_ms", "token_counter_working",
   "token_count", "api_key_configured", "debug_provider_info"}

\* check_llm without the entries of the provider's result
check_llm_own_keys(prov, outcome) ==
  IF outcome = "init raises"
    THEN HealthDict(FALSE, {"healthy", "provider", "api_key_configured",
                            "debug_provider_info"}, "")
    ELSE HealthDict(test_provider(prov, outcome).success, LlmKeys, "")

\* HealthCheckService.check_llm: LLMService() raising ends in the except
\* block; otherwise the provider's result is merged into the dict
check_llm(prov, outcome) ==
  IF outcome = "init raises"
    THEN HealthDict(FALSE, {"healthy", "provider", "error", "api_key_configured",
                            "debug_provider_info"}, "init raises")
    ELSE LET result == test_provider(prov, outcome)
         IN HealthDict(result.success, LlmKeys \cup result.keys, result.error)

\* all_healthy of check_all without the optional services
AllHealthyRequired(results, settings) ==
  /\ results["database"].dict /\ results["database"].healthy
  /\ results["llm"].dict /\ results["llm"].healthy

\* all_healthy of check_all
AllHealthy(results, settings) ==
  /\ results["database"].dict /\ results["database"].healthy
  /\ results["llm"].dict /\ results["llm"].healthy
  /\ IF settings.supabase_url
       THEN results["supabase"].dict /\ results["supabase"].healthy
       ELSE TRUE
  /\ IF settings.redis_url
       THEN results["redis"].dict /\ results["redis"].healthy
       ELSE TRUE

\* the entry of the services map for one check
ServiceEntry(result) ==
  IF result.dict THEN result ELSE HealthDict(FALSE, {"healthy", "error"}, result.error)

\* what check_all returns
check_all(results, settings) ==
  [returned |-> TRUE,
   status |-> IF AllHealthy(results, settings) THEN "healthy" ELSE "unhealthy",
   keys |-> {"status", "timestamp", "version", "execution_time_ms", "services"},
   services |-> [c \in Services |-> ServiceEntry(results[c])]]

NoHealthReport ==
  [returned |-> FALSE, status |-> "", keys |-> {},
   services |-> [c \in Services |-> NoHealthResult]]

(***************************************************************************)
(* RedisService: the values it stores and the keys it stores them under.   *)
(***************************************************************************)
\* a Python value: its type and its content
PyValue(t, v) == [t |-> t, v |-> v]

PyNone == PyValue("none", "")

\* a row holding a value JSON has no type for, as asyncpg returns it
DatedRow == PyValue("dict", "{\"at\": datetime(2024, 1, 1)}")

\* the same row with str() applied to that value
DatedRowJson == "{\"at\": \"2024-01-01 00:00:00\"}"

\* the values callers hand to set_cache; a value is written as Python prints it
CacheValues ==
  { PyValue("dict", "{\"rows\": 1}"),
    DatedRow,
    PyValue("list", "[1, 2]"),
    PyValue("str", "abc"),
    PyValue("str", "123"),
    PyValue("int", "123"),
    PyValue("bool", "True") }

\* json.dumps(value, default=str) of a dict or a list: the JSON text, with
\* str() applied to what JSON has no type for
JsonDumps(value) == IF value = DatedRow THEN DatedRowJson ELSE value.v

\* str(value)
Str(value) == value.v

\* set_cache: the text written for a value
Serialize(value) ==
  IF value.t \in {"dict", "list"} THEN JsonDumps(value) ELSE Str(value)

\* the texts json.loads accepts, with the value it returns for each
JsonDocuments ==
  [text \in {"{\"rows\": 1}", DatedRowJson, "[1, 2]", "123"} |->
     IF text \in {"{\"rows\": 1}", DatedRowJson} THEN PyValue("dict", text)
     ELSE IF text = "[1, 2]" THEN PyValue("list", text)
     ELSE PyValue("int", text)]

\* get_cache returning the stored text whatever it holds
DeserializeRaw(text) == PyValue("str", text)

\* get_cache: the value returned for a stored text
Deserialize(text) ==
  IF text \in DOMAIN JsonDocuments THEN JsonDocuments[text] ELSE PyValue("str", text)

\* the hashes callers name a query result by: a request's prompt and mode
QueryHashes == {<<ShortPrompt, "auto">>}

\* cache_query_result / get_cached_query: f"query:{query_hash}"
QueryCacheKey(query_hash) == <<"query", query_hash>>

\* the key of the schema snapshot get_schema_info returns, outside the
\* "query:" family
SchemaCacheKey == <<"schema", <<>>>>

CacheKeys == {QueryCacheKey(h) : h \in QueryHashes} \cup {SchemaCacheKey}

\* the patterns callers hand to clear_pattern: "query:*" and "*"
KeyPatterns == {<<"query">>, <<>>}

\* redis KEYS: the pattern matches the key
PatternCovers(pattern, key) == pattern = <<>> \/ pattern[1] = key[1]

\* no entry under a key
Absent == ""

StoredTexts == {Serialize(v) : v \in CacheValues}

EmptyStore == [k \in CacheKeys |-> Absent]

\* the keys with a live entry
LiveKeys(st) == {k \in CacheKeys : st[k] # Absent}

\* what a cache operation returned, with the client and the store it met
CacheResult(op, client, up, raised, value, ok, count) ==
  [op |-> op, client |-> client, up |-> up, raised |-> raised, value |-> value,
   ok |-> ok, count |-> count]

NoCacheResult == CacheResult("none", "none", FALSE, FALSE, PyNone, FALSE, 0)

(***************************************************************************)
(* State.                                                                  *)
(***************************************************************************)
VARIABLES
  vIn,        \* validator harness: the SQL text given to validate_query
  vOut,       \* validator harness: what validate_query returned
  vPc,        \* validator harness: "off", "ready", "validated" or "revalidated"
  vAgain,     \* validator harness: what validate_query returned for its own output
  qIn,        \* request harness: the keyword arguments given to QueryRequest
  qOut,       \* request harness: the request built, or the validation error
  qMode,      \* request harness: what _determine_mode returned for the request
  qPc,        \* request harness: "off", "received", "accepted", "rejected", "resolved"
  cIn,        \* chart harness: output_format, the rows executed, chart size given
  cPc,        \* chart harness: "off", "executed", "chart_llm" or "done"
  cTried,     \* chart harness: the config generators gone through, in order
  cChart,     \* chart harness: chart_config and chart_fallback_used
  cResp,      \* chart harness: the QueryResponse _process_simple_query returned
  hSet,       \* health harness: the settings the checks read
  hPc,        \* health harness: per check "off", "pending" or "done"
  hOut,       \* health harness: per check what gather collected for it
  hHow,       \* health harness: per check how it went
  hAll,       \* health harness: what check_all returned
  rClock,     \* rate limiter: what time.time() returns, in seconds
  request_counts, \* rate limiter: per client address the admission times kept
  rLog,       \* rate limiter: every rate_limit call and how it ended, in order
  provider,   \* settings.LLM_PROVIDER
  nextId,     \* the next identifier uuid4 hands out
  pc,         \* per call: the await it is suspended at
  kind,       \* per call: "query" (POST /query) or "explain" (explain_query)
  req,        \* per call: the QueryRequest
  routeId,    \* per call: query_id of the route handler
  qid,        \* per call: query_id of process_query
  mode,       \* per call: the mode _determine_mode returned
  genSql,     \* per call: the SQL text handed to the SQL service
  valid,      \* per call: what validate_query returned in execute/explain
  sent,       \* per call: what it did to the database, in order
  conn,       \* per call: connections it holds open
  resp,       \* per call: the QueryResponse process_query returned
  routeOut,   \* per call: what the route handler produced
  failStage,  \* per call: the stage whose failure ended the call
  prior,      \* per call: the calls that had finished when it started
  answers,    \* per call: when the database answers the query it is sent
  stages,     \* per call: the pipeline stages it entered, in order
  execOut,    \* per call: what execute_query returned or raised
  redis,      \* RedisService.redis: "none", "open" or "closed"
  storeUp,    \* the cache store is reachable
  store,      \* the cache store: the text under each key
  cacheOut,   \* what the last RedisService call returned
  written     \* per key: the value set_cache was given for the entry it holds

vars ==
  <<vIn, vOut, vPc, vAgain, qIn, qOut, qMode, qPc, cIn, cPc, cTried, cChart, cResp, hSet, hPc, hOut,
    hHow, hAll, rClock, request_counts, rLog, provider, nextId, pc, kind, req, routeId, qid, mode, genSql,
    valid, sent, conn, resp, routeOut, failStage, prior, answers, stages,
    execOut, redis, storeUp, store, cacheOut, written>>

validatorVars == <<vIn, vOut, vPc, vAgain>>

requestVars == <<qIn, qOut, qMode, qPc>>

chartVars == <<cIn, cPc, cTried, cChart, cResp>>

healthVars == <<hSet, hPc, hOut, hHow, hAll>>

rateVars == <<rClock, request_counts, rLog>>

sideVars == <<chartVars, healthVars, rateVars>>

harnessVars == <<validatorVars, requestVars, sideVars>>

cacheVars == <<redis, storeUp, store, cacheOut, written>>

\* no entry was written by a caller
NothingWritten == [k \in CacheKeys |-> PyNone]

\* the cache after a startup whose connect succeeded, nothing stored yet
CacheConnected ==
  /\ redis = "open"
  /\ storeUp = TRUE
  /\ store = EmptyStore
  /\ cacheOut = NoCacheResult
  /\ written = NothingWritten

NoValid == [valid |-> FALSE, sql |-> <<>>, reason |-> <<"", 0>>]

NoRequest == [prompt |-> NoPromptText, mode |-> "", use_cache |-> FALSE]

\* what execute_query did: "returned" rows of the `fetched` rows the database
\* produced, with or without its SQLQuery info, or "raised" an exception
ExecOutcome(how, rows, fetched, info, etype) ==
  [how |-> how, rows |-> rows, fetched |-> fetched, info |-> info, etype |-> etype]

NoExecOut == ExecOutcome("none", 0, 0, FALSE, "")

\* execute_query returns (results, sql_info): every row fetched, converted
ExecReturned(fetched) == ExecOutcome("returned", fetched, fetched, TRUE, "")

\* execute_query raises
ExecRaised(etype) == ExecOutcome("raised", 0, 0, FALSE, etype)

\* the request harness is not in use
RequestIdle ==
  /\ qIn = NoRequest
  /\ qOut = Rejected("")
  /\ qMode = "none"
  /\ qPc = "off"

\* the chart harness is not in use
ChartIdle ==
  /\ cIn = NoChartCall
  /\ cPc = "off"
  /\ cTried = <<>>
  /\ cChart = NoChart
  /\ cResp = NoChartResponse

\* the health harness is not in use
HealthIdle ==
  /\ hSet = NoHealthSettings
  /\ hPc = [c \in Services |-> "off"]
  /\ hOut = [c \in Services |-> NoHealthResult]
  /\ hHow = [c \in Services |-> ""]
  /\ hAll = NoHealthReport

\* the client addresses requests come from
Clients == {"10.0.0.1", "10.0.0.2"}

\* the rate limiter as the module is imported: no request seen
RateIdle ==
  /\ rClock = 0
  /\ request_counts = [c \in Clients |-> <<>>]
  /\ rLog = <<>>

SideIdle == ChartIdle /\ HealthIdle /\ RateIdle

\* the harnesses of the units checked on their own are not in use
UnitsIdle == RequestIdle /\ SideIdle

PipelineIdle ==
  /\ nextId = 1
  /\ pc = [p \in Procs |-> "idle"]
  /\ kind = [p \in Procs |-> "none"]
  /\ req = [p \in Procs |-> NoRequest]
  /\ routeId = [p \in Procs |-> 0]
  /\ qid = [p \in Procs |-> 0]
  /\ mode = [p \in Procs |-> "none"]
  /\ genSql = [p \in Procs |-> <<>>]
  /\ valid = [p \in Procs |-> NoValid]
  /\ sent = [p \in Procs |-> <<>>]
  /\ conn = [p \in Procs |-> 0]
  /\ resp = [p \in Procs |-> NoResp]
  /\ routeOut = [p \in Procs |-> NoRouteOut]
  /\ failStage = [p \in Procs |-> "none"]
  /\ prior = [p \in Procs |-> {}]
  /\ answers = [p \in Procs |-> "in time"]
  /\ stages = [p \in Procs |-> <<>>]
  /\ execOut = [p \in Procs |-> NoExecOut]

Init ==
  /\ vIn = <<>>
  /\ vOut = NoValid
  /\ vAgain = NoValid
  /\ vPc = "off"
  /\ provider \in Providers
  /\ PipelineIdle
  /\ CacheConnected
  /\ UnitsIdle

(***************************************************************************)
(* The validator applied to an enumerated input.                           *)
(***************************************************************************)
InitValidate ==
  /\ vIn \in SqlInputs
  /\ vOut = NoValid
  /\ vAgain = NoValid
  /\ vPc = "ready"
  /\ provider = "groq"
  /\ PipelineIdle
  /\ CacheConnected
  /\ UnitsIdle

pipelineVars ==
  <<provider, nextId, pc, kind, req, routeId, qid, mode, genSql, valid, sent,
    conn, resp, routeOut, failStage, prior, answers, stages, execOut>>

\* one call of SQLService.validate_query
ValidateCall ==
  /\ vPc = "ready"
  /\ vOut' = validate_query(vIn)
  /\ vPc' = "validated"
  /\ UNCHANGED <<vIn, vAgain, requestVars, sideVars, pipelineVars, cacheVars>>

\* validate_query called on the SQL text an earlier call returned
ValidateAgain ==
  /\ vPc = "validated"
  /\ vOut.valid
  /\ vAgain' = validate_query(vOut.sql)
  /\ vPc' = "revalidated"
  /\ UNCHANGED <<vIn, vOut, requestVars, sideVars, pipelineVars, cacheVars>>

NextValidate == ValidateCall \/ ValidateAgain

SpecValidate == InitValidate /\ [][NextValidate]_vars

(***************************************************************************)
(* A request built from a client's arguments, then _determine_mode on it.  *)
(***************************************************************************)
InitRequest ==
  /\ vIn = <<>>
  /\ vOut = NoValid
  /\ vAgain = NoValid
  /\ vPc = "off"
  /\ provider = "groq"
  /\ PipelineIdle
  /\ CacheConnected
  /\ qIn \in RawRequests
  /\ qOut = Rejected("")
  /\ qMode = "none"
  /\ qPc = "received"
  /\ SideIdle

\* QueryRequest(**arguments), as FastAPI builds the body of POST /query
ConstructRequest ==
  /\ qPc = "received"
  /\ qOut' = QueryRequestInit(qIn)
  /\ qPc' = IF QueryRequestInit(qIn).accepted THEN "accepted" ELSE "rejected"
  /\ UNCHANGED <<qIn, qMode, validatorVars, sideVars, pipelineVars, cacheVars>>

\* QueryProcessor._determine_mode on the accepted request
DetermineMode ==
  /\ qPc = "accepted"
  /\ qMode' = IF DetermineRaises(qOut.request) THEN "raised"
              ELSE determine_mode(qOut.request)
  /\ qPc' = "resolved"
  /\ UNCHANGED <<qIn, qOut, validatorVars, sideVars, pipelineVars, cacheVars>>

NextRequest == ConstructRequest \/ DetermineMode

SpecRequest == InitRequest /\ [][NextRequest]_vars

(***************************************************************************)
(* _process_simple_query from the return of execute_query to its own       *)
(* return: the chart step and the construction of the QueryResponse.       *)
(***************************************************************************)
InitChart ==
  /\ vIn = <<>>
  /\ vOut = NoValid
  /\ vAgain = NoValid
  /\ vPc = "off"
  /\ RequestIdle
  /\ provider \in Providers
  /\ PipelineIdle
  /\ CacheConnected
  /\ cIn \in ChartCalls
  /\ cPc = "executed"
  /\ cTried = <<>>
  /\ cChart = NoChart
  /\ cResp = NoChartResponse
  /\ HealthIdle
  /\ RateIdle

\* request.output_format == OutputFormat.CHART and data
ChartWanted == cIn.format = "chart" /\ cIn.data.rows > 0

\* the QueryResponse is built and returned with the chart given
Assemble(chart) ==
  /\ cChart' = chart
  /\ cResp' = ChartResponse(~CostIsFractional(provider), cIn.data, chart)
  /\ cPc' = "done"

\* from execute_query's return to the LLM call of generate_chart_config, or to
\* the return when no chart is wanted or the prompt cannot be written
AfterExecute ==
  /\ cPc = "executed"
  /\ IF ~ChartWanted
       THEN /\ Assemble(NoChart)
            /\ cTried' = <<>>
     ELSE IF ~JsonSerializable(cIn.data)
       THEN /\ Assemble(ChartFallback(cIn.data))
            /\ cTried' = Tried(FALSE, ChartReply("raises", FALSE, FALSE, FALSE),
                               ChartFallback(cIn.data))
     ELSE /\ cPc' = "chart_llm"
          /\ UNCHANGED <<cTried, cChart, cResp>>
  /\ UNCHANGED <<cIn, healthVars, rateVars, validatorVars, requestVars, pipelineVars, cacheVars>>

\* the LLM call of generate_chart_config ends; the rest of the chart step and
\* the construction of the response follow without another await
ChartReturn ==
  /\ cPc = "chart_llm"
  /\ \E reply \in ChartReplies :
       LET chart == ChartStep(generate_chart_config(reply, cIn.data, cIn.sized), cIn.data)
       IN /\ Assemble(chart)
          /\ cTried' = Tried(TRUE, reply, chart)
  /\ UNCHANGED <<cIn, healthVars, rateVars, validatorVars, requestVars, pipelineVars, cacheVars>>

NextChart == AfterExecute \/ ChartReturn

SpecChart == InitChart /\ [][NextChart]_vars

(***************************************************************************)
(* HealthCheckService.check_all: the four checks run side by side under    *)
(* asyncio.gather(..., return_exceptions=True), then the report is built.  *)
(***************************************************************************)
InitHealth ==
  /\ vIn = <<>>
  /\ vOut = NoValid
  /\ vAgain = NoValid
  /\ vPc = "off"
  /\ RequestIdle
  /\ ChartIdle
  /\ RateIdle
  /\ provider \in Providers
  /\ PipelineIdle
  /\ CacheConnected
  /\ hSet \in HealthSettings
  /\ hPc = [c \in Services |-> "pending"]
  /\ hOut = [c \in Services |-> NoHealthResult]
  /\ hHow = [c \in Services |-> ""]
  /\ hAll = NoHealthReport

\* the check of service c ends with the result given, having gone as `how`
Collect(c, how, result) ==
  /\ hOut' = [hOut EXCEPT ![c] = result]
  /\ hHow' = [hHow EXCEPT ![c] = how]
  /\ hPc' = [hPc EXCEPT ![c] = "done"]
  /\ UNCHANGED <<hSet, hAll, chartVars, rateVars, validatorVars, requestVars, pipelineVars, cacheVars>>

CheckDatabase ==
  \E o \in DatabaseOutcomes :
    /\ hPc["database"] = "pending"
    /\ Collect("database", o, IF o = "cancelled" THEN Escaped("CancelledError")
                              ELSE check_database(o))

\* check_supabase has no await: nothing can cancel it
CheckSupabase ==
  \E o \in SupabaseOutcomes :
    /\ hPc["supabase"] = "pending"
    /\ Collect("supabase",
               IF hSet.supabase_url /\ hSet.supabase_key THEN o ELSE "not configured",
               check_supabase(hSet, o))

CheckLlm ==
  \E o \in LlmOutcomes :
    /\ hPc["llm"] = "pending"
    /\ Collect("llm", o, IF o = "cancelled" THEN Escaped("CancelledError")
                         ELSE check_llm(provider, o))

\* without REDIS_URL check_redis returns before its first await
CheckRedis ==
  \E o \in RedisOutcomes :
    /\ hPc["redis"] = "pending"
    /\ o = "cancelled" => hSet.redis_url
    /\ Collect("redis", IF hSet.redis_url THEN o ELSE "not configured",
               IF o = "cancelled" THEN Escaped("CancelledError")
               ELSE check_redis(hSet, o))

\* gather has every result: check_all builds its report and returns
CheckAllReturn ==
  /\ \A c \in Services : hPc[c] = "done"
  /\ ~hAll.returned
  /\ hAll' = check_all(hOut, hSet)
  /\ UNCHANGED <<hSet, hPc, hOut, hHow, chartVars, rateVars, validatorVars, requestVars,
                 pipelineVars, cacheVars>>

NextHealth ==
  CheckDatabase \/ CheckSupabase \/ CheckLlm \/ CheckRedis \/ CheckAllReturn

SpecHealth == InitHealth /\ [][NextHealth]_vars

(***************************************************************************)
(* rate_limit, the dependency of POST /query. The body of `async with      *)
(* rate_limit_lock` has no await, so the lock is free whenever a call      *)
(* reaches it and the call runs from time.time() to its end in one step.   *)
(* The clock never goes back.                                              *)
(***************************************************************************)
\* the seconds an admission is kept for
RateWindow == 60

\* the comprehension of rate_limit: the times less than RateWindow old
Kept(times, now) == SelectSeq(times, LAMBDA t : now - t < RateWindow)

\* the limit test letting one request more through
OverLimitLoose(n) == n > RATE_LIMIT_PER_MINUTE

\* the limit test of rate_limit
OverLimit(n) == n >= RATE_LIMIT_PER_MINUTE

\* one rate_limit call: the client, the time it read, admitted or 429
RateCall(client, time, admitted) == [client |-> client, time |-> time, admitted |-> admitted]

\* rate_limit(request) for a request of client address c
RateLimit(c) ==
  /\ Len(rLog) < MaxRateCalls
  /\ LET current_time == rClock
         kept == Kept(request_counts[c], current_time)
     IN IF OverLimit(Len(kept))
          THEN /\ request_counts' = [request_counts EXCEPT ![c] = kept]
               /\ rLog' = Append(rLog, RateCall(c, current_time, FALSE))
          ELSE /\ request_counts' = [request_counts EXCEPT ![c] = Append(kept, current_time)]
               /\ rLog' = Append(rLog, RateCall(c, current_time, TRUE))
  /\ UNCHANGED <<rClock, chartVars, healthVars, validatorVars, requestVars, pipelineVars,
                 cacheVars>>

\* time passes
ClockAdvance ==
  /\ rClock < MaxClock
  /\ rClock' = rClock + ClockStep
  /\ UNCHANGED <<request_counts, rLog, chartVars, healthVars, validatorVars, requestVars,
                 pipelineVars, cacheVars>>

InitRate ==
  /\ vIn = <<>>
  /\ vOut = NoValid
  /\ vAgain = NoValid
  /\ vPc = "off"
  /\ provider = "groq"
  /\ PipelineIdle
  /\ CacheConnected
  /\ UnitsIdle

NextRate == ClockAdvance \/ \E c \in Clients : RateLimit(c)

SpecRate == InitRate /\ [][NextRate]_vars

(***************************************************************************)
(* POST /query: the route handler and QueryProcessor.process_query.        *)
(* Code between two awaits runs without interleaving, so an action is the  *)
(* code from one suspension to the next.                                   *)
(***************************************************************************)
\* an entry of the log of what a call did to the database
Event(by, op, text) == [by |-> by, op |-> op, text |-> text]

\* calls are numbered in the order they arrive
ArrivesNext(p) == \A o \in Procs : o < p => pc[o] # "idle"

\* validate_query on the texts the LLM capability may return
ValidatedSQL == [s \in GeneratedSQL |-> validate_query(s)]

\* process_query returns r and the route handler finishes the call
Finish(p, route_id, r, stage) ==
  /\ resp' = [resp EXCEPT ![p] = r]
  /\ routeOut' = [routeOut EXCEPT ![p] = RouteHandler(route_id)]
  /\ failStage' = [failStage EXCEPT ![p] = stage]
  /\ pc' = [pc EXCEPT ![p] = "done"]

\* _process_advanced_query: _process_simple_query is called without `mode`
AdvancedDispatchRaises == TRUE

\* the request arrives: route handler, process_query, _determine_mode, dispatch
StartQuery(p) ==
  /\ pc[p] = "idle"
  /\ ArrivesNext(p)
  /\ \E r \in RequestInputs :
       LET rid == nextId
           q   == nextId + 1
       IN /\ nextId' = nextId + 2
          /\ kind' = [kind EXCEPT ![p] = "query"]
          /\ req' = [req EXCEPT ![p] = r]
          /\ routeId' = [routeId EXCEPT ![p] = rid]
          /\ qid' = [qid EXCEPT ![p] = q]
          /\ prior' = [prior EXCEPT ![p] = {o \in Procs : pc[o] = "done" /\ kind[o] = "query"}]
          /\ IF DetermineRaises(r)
               THEN /\ mode' = mode
                    /\ UNCHANGED stages
                    /\ Finish(p, rid, ProcessFailure(q, "tokenizer refused the prompt"), "mode")
             ELSE IF determine_mode(r) = "advanced" /\ AdvancedDispatchRaises
               THEN /\ mode' = [mode EXCEPT ![p] = "advanced"]
                    /\ UNCHANGED stages
                    /\ Finish(p, rid, ProcessFailure(q, "missing argument mode"), "dispatch")
             ELSE /\ mode' = [mode EXCEPT ![p] = determine_mode(r)]
                  /\ stages' = [stages EXCEPT ![p] = Append(@, "schema")]
                  /\ pc' = [pc EXCEPT ![p] = "schema_connect"]
                  /\ UNCHANGED <<resp, routeOut, failStage>>
  /\ UNCHANGED <<harnessVars, cacheVars, answers, execOut, provider, genSql, valid, sent, conn>>

\* get_schema_info: asyncpg.connect returns or raises
SchemaConnect(p) ==
  /\ pc[p] = "schema_connect"
  /\ \E ok \in BOOLEAN :
       IF ok
         THEN /\ conn' = [conn EXCEPT ![p] = @ + 1]
              /\ sent' = [sent EXCEPT ![p] = Append(@, Event("get_schema_info", "connect", <<>>))]
              /\ pc' = [pc EXCEPT ![p] = "schema_fetch"]
              /\ UNCHANGED <<resp, routeOut, failStage>>
         ELSE /\ UNCHANGED <<conn, sent>>
              /\ Finish(p, routeId[p],
                        SimpleFailure(qid[p], "connection failed", "OSError"), "schema")
  /\ UNCHANGED <<harnessVars, cacheVars, answers, stages, execOut, provider, nextId, kind,
                 req, routeId, qid, mode, genSql, valid, prior>>

\* a connection's last statement sent a second time before the close
LastUseRepeated(by, op, text) ==
  <<Event(by, op, text), Event(by, op, text), Event(by, "close", <<>>)>>

\* the connection closed before its last statement is sent
LastUseAfterClose(by, op, text) == <<Event(by, "close", <<>>), Event(by, op, text)>>

\* the events that end a connection's use: the last statement and the close
LastUse(by, op, text) == <<Event(by, op, text), Event(by, "close", <<>>)>>

\* get_raw_connection leaving the connection open on exit
Leaked(held) == held

\* get_raw_connection: the finally block closes the connection
Released(held) == held - 1

\* get_schema_info: the catalog query returns or raises, the connection is
\* closed; then generate_sql_query runs up to the LLM call
SchemaFetch(p) ==
  /\ pc[p] = "schema_fetch"
  /\ sent' = [sent EXCEPT ![p] = @ \o LastUse("get_schema_info", "catalog", <<>>)]
  /\ conn' = [conn EXCEPT ![p] = Released(@)]
  /\ \E ok \in BOOLEAN :
       IF ~ok
         THEN /\ UNCHANGED stages
              /\ Finish(p, routeId[p],
                        SimpleFailure(qid[p], "catalog query failed", "PostgresError"), "schema")
       ELSE IF CountRaises(req[p].prompt)
         THEN /\ stages' = [stages EXCEPT ![p] = Append(@, "llm")]
              /\ Finish(p, routeId[p],
                        SimpleFailure(qid[p], "tokenizer refused the prompt", "ValueError"), "llm")
       ELSE /\ stages' = [stages EXCEPT ![p] = Append(@, "llm")]
            /\ pc' = [pc EXCEPT ![p] = "llm"]
            /\ UNCHANGED <<resp, routeOut, failStage>>
  /\ UNCHANGED <<harnessVars, cacheVars, answers, execOut, provider, nextId, kind, req,
                 routeId, qid, mode, genSql, valid, prior>>

\* the reason text of a rejected query
ReasonText(v) ==
  IF v.reason[1] = "forbidden pattern"
    THEN "Query contains forbidden pattern"
    ELSE "Only SELECT queries are allowed"

\* execute_query going on to connect whatever validate_query returned
ExecuteValidatesAlways(v) == TRUE

\* execute_query up to its first await: True when the call goes on to connect
ExecuteValidates(v) == v.valid

\* the LLM call returns or raises; execute_query validates the SQL
LLMReturn(p) ==
  /\ pc[p] = "llm"
  /\ \/ /\ Finish(p, routeId[p],
                  SimpleFailure(qid[p], "LLM call failed", "LLMError"), "llm")
        /\ UNCHANGED <<genSql, valid, stages, execOut>>
     \/ \E sql \in GeneratedSQL :
          LET v == ValidatedSQL[sql]
          IN /\ genSql' = [genSql EXCEPT ![p] = sql]
             /\ valid' = [valid EXCEPT ![p] = v]
             /\ IF ExecuteValidates(v)
                  THEN /\ stages' = [stages EXCEPT ![p] = @ \o <<"validation", "execution">>]
                       /\ pc' = [pc EXCEPT ![p] = "exec_connect"]
                       /\ UNCHANGED <<resp, routeOut, failStage, execOut>>
                  ELSE /\ stages' = [stages EXCEPT ![p] = Append(@, "validation")]
                       /\ execOut' = [execOut EXCEPT ![p] = ExecRaised("SQLValidationError")]
                       /\ Finish(p, routeId[p],
                                 SimpleFailure(qid[p], ReasonText(v), "SQLValidationError"),
                                 "validation")
  /\ UNCHANGED <<harnessVars, cacheVars, answers, provider, nextId, kind, req, routeId,
                 qid, mode, sent, conn, prior>>

\* when the database answers a query: within the timeout, after it, or never
Answers == {"in time", "late", "never"}

\* asyncio.wait_for around the fetch: the message of the TimeoutError handler
ClientTimeoutText == "Query exceeded timeout"

\* statement_timeout: the database cancels the statement, a PostgresError
ServerTimeoutText == "Database error: canceling statement due to statement timeout"

TimeoutTexts == {ClientTimeoutText, ServerTimeoutText}

\* execute_query letting the TimeoutError of wait_for out as it is
ExecErrorTypeOfCause(failure) ==
  IF failure = ClientTimeoutText THEN "TimeoutError" ELSE "SQLExecutionError"

\* the exception type execute_query raises for a failure inside its try block
ExecErrorType(failure) == "SQLExecutionError"

\* execute_query raised for a failure inside its try block; the handler of
\* _process_simple_query answers
ExecFails(p, failure) ==
  /\ execOut' = [execOut EXCEPT ![p] = ExecRaised(ExecErrorType(failure))]
  /\ Finish(p, routeId[p], SimpleFailure(qid[p], failure, ExecErrorType(failure)),
            "execution")

\* execute_query: asyncpg.connect returns or raises
ExecConnect(p) ==
  /\ pc[p] = "exec_connect"
  /\ \E ok \in BOOLEAN :
       IF ok
         THEN /\ conn' = [conn EXCEPT ![p] = @ + 1]
              /\ sent' = [sent EXCEPT ![p] = Append(@, Event("execute_query", "connect", <<>>))]
              /\ pc' = [pc EXCEPT ![p] = "exec_set"]
              /\ UNCHANGED <<resp, routeOut, failStage, execOut>>
         ELSE /\ UNCHANGED <<conn, sent>>
              /\ ExecFails(p, "Query execution failed")
  /\ UNCHANGED <<harnessVars, cacheVars, answers, stages, provider, nextId, kind, req,
                 routeId, qid, mode, genSql, valid, prior>>

\* execute_query: SET statement_timeout returns or raises
ExecSetTimeout(p) ==
  /\ pc[p] = "exec_set"
  /\ \E ok \in BOOLEAN :
       IF ok
         THEN /\ sent' = [sent EXCEPT ![p] =
                            Append(@, Event("execute_query", "set_timeout", SetTimeoutText))]
              /\ pc' = [pc EXCEPT ![p] = "exec_fetch"]
              /\ \E a \in Answers : answers' = [answers EXCEPT ![p] = a]
              /\ UNCHANGED <<conn, resp, routeOut, failStage, execOut>>
         ELSE /\ sent' = [sent EXCEPT ![p] =
                            @ \o LastUse("execute_query", "set_timeout", SetTimeoutText)]
              /\ conn' = [conn EXCEPT ![p] = Released(@)]
              /\ UNCHANGED answers
              /\ ExecFails(p, "Database error")
  /\ UNCHANGED <<harnessVars, cacheVars, stages, provider, nextId, kind, req, routeId,
                 qid, mode, genSql, valid, prior>>

\* execute_query fetching its argument instead of the validated text
FetchedTextUnvalidated(sql, v) == sql

\* the SQL text execute_query fetches, given its argument and the validation
FetchedText(sql, v) == v.sql

TableSizes == {0, MaxTableRows}

\* asyncio.wait_for without effect: the wait for the answer is never ended
ClientTimeoutNever(a) == FALSE

\* asyncio.wait_for: the timer ends the wait when no answer came in time
ClientTimeoutFires(a) == a # "in time"

\* SET statement_timeout: a live database cancels the late statement
ServerTimeoutFires(a) == a = "late"

\* how the fetch can fail, given when the database answers
FetchFailures(a) ==
  (IF a = "in time" THEN {"Database error", "Query execution failed"} ELSE {})
    \cup (IF ClientTimeoutFires(a) THEN {ClientTimeoutText} ELSE {})
    \cup (IF ServerTimeoutFires(a) THEN {ServerTimeoutText} ELSE {})

\* the chart step of a call: request.output_format is not 'chart' or there
\* are no rows, generate_chart_config awaits the LLM, or it raises before
\* that call (json.dumps of the sample)
ChartSteps == {"not wanted", "awaits LLM", "fails before LLM"}

\* the QueryResponse of _process_simple_query is built from the rows fetched
\* and returned and from the chart_config the chart step left (`made`: it is
\* not None); its construction failing is answered by the except block
Respond(p, fetched, made) ==
  IF CostIsFractional(provider)
    THEN Finish(p, routeId[p],
                SimpleFailure(qid[p], "token_usage is not an integer", "ValidationError"),
                "assembly")
    ELSE Finish(p, routeId[p],
                [SimpleSuccess(qid[p], valid[p].sql, fetched) EXCEPT !.has_chart = made],
                "none")

\* execute_query: the fetch returns rows, times out or raises; the connection
\* is closed; _process_simple_query goes on to the chart step, which is
\* skipped, fails at once or awaits the LLM, and then assembles the response
ExecFetch(p) ==
  /\ pc[p] = "exec_fetch"
  /\ sent' = [sent EXCEPT ![p] =
                @ \o LastUse("execute_query", "query", FetchedText(genSql[p], valid[p]))]
  /\ conn' = [conn EXCEPT ![p] = Released(@)]
  /\ \/ /\ \E err \in FetchFailures(answers[p]) : ExecFails(p, err)
        /\ UNCHANGED stages
     \/ /\ answers[p] = "in time"
        /\ \E n \in TableSizes, chart \in ChartSteps :
             LET fetched == RowsReturned(FetchedText(genSql[p], valid[p]), n)
             IN /\ chart # "not wanted" => fetched > 0
                /\ execOut' = [execOut EXCEPT ![p] = ExecReturned(fetched)]
                /\ IF chart = "awaits LLM"
                     THEN /\ stages' = [stages EXCEPT ![p] = Append(@, "chart")]
                          /\ pc' = [pc EXCEPT ![p] = "chart_llm"]
                          /\ UNCHANGED <<resp, routeOut, failStage>>
                     ELSE /\ stages' = [stages EXCEPT ![p] =
                                          @ \o (IF chart = "not wanted" THEN <<>> ELSE <<"chart">>)
                                            \o <<"response">>]
                          /\ \E made \in BOOLEAN :
                               /\ chart = "not wanted" => ~made
                               /\ Respond(p, fetched, made)
  /\ UNCHANGED <<harnessVars, cacheVars, answers, provider, nextId, kind, req,
                 routeId, qid, mode, genSql, valid, prior>>

\* the LLM call of generate_chart_config returns or raises: whatever the chart
\* step makes of it, _process_simple_query goes on to assemble the response
ChartGenerate(p) ==
  /\ pc[p] = "chart_llm"
  /\ stages' = [stages EXCEPT ![p] = Append(@, "response")]
  /\ \E made \in BOOLEAN : Respond(p, execOut[p].rows, made)
  /\ UNCHANGED <<harnessVars, cacheVars, answers, execOut, provider, nextId, kind, req,
                 routeId, qid, mode, genSql, valid, sent, conn, prior>>

(***************************************************************************)
(* SQLService.explain_query called on its own.                             *)
(***************************************************************************)
\* explain_query up to its first await
ExplainStart(p) ==
  /\ pc[p] = "idle"
  /\ ArrivesNext(p)
  /\ \E sql \in GeneratedSQL :
       LET v == ValidatedSQL[sql]
       IN /\ kind' = [kind EXCEPT ![p] = "explain"]
          /\ genSql' = [genSql EXCEPT ![p] = sql]
          /\ valid' = [valid EXCEPT ![p] = v]
          /\ IF v.valid
               THEN /\ pc' = [pc EXCEPT ![p] = "explain_connect"]
                    /\ UNCHANGED failStage
               ELSE /\ pc' = [pc EXCEPT ![p] = "done"]
                    /\ failStage' = [failStage EXCEPT ![p] = "validation"]
  /\ UNCHANGED <<harnessVars, cacheVars, answers, stages, execOut, provider, nextId, req, routeId, qid, mode, sent,
                 conn, resp, routeOut, prior>>

\* explain_query: asyncpg.connect returns or raises
ExplainConnect(p) ==
  /\ pc[p] = "explain_connect"
  /\ \E ok \in BOOLEAN :
       IF ok
         THEN /\ conn' = [conn EXCEPT ![p] = @ + 1]
              /\ sent' = [sent EXCEPT ![p] = Append(@, Event("explain_query", "connect", <<>>))]
              /\ pc' = [pc EXCEPT ![p] = "explain_fetch"]
              /\ UNCHANGED failStage
         ELSE /\ UNCHANGED <<conn, sent>>
              /\ pc' = [pc EXCEPT ![p] = "done"]
              /\ failStage' = [failStage EXCEPT ![p] = "execution"]
  /\ UNCHANGED <<harnessVars, cacheVars, answers, stages, execOut, provider, nextId, kind, req, routeId, qid, mode,
                 genSql, valid, resp, routeOut, prior>>

\* the statement explain_query sends
ExplainText(v) == ExplainPrefix \o v.sql

\* explain_query: fetchrow returns or raises, the connection is closed
ExplainFetch(p) ==
  /\ pc[p] = "explain_fetch"
  /\ sent' = [sent EXCEPT ![p] = @ \o LastUse("explain_query", "explain", ExplainText(valid[p]))]
  /\ conn' = [conn EXCEPT ![p] = Released(@)]
  /\ pc' = [pc EXCEPT ![p] = "done"]
  /\ \E ok \in BOOLEAN :
       failStage' = [failStage EXCEPT ![p] = IF ok THEN "none" ELSE "execution"]
  /\ UNCHANGED <<harnessVars, cacheVars, answers, stages, execOut, provider, nextId, kind, req, routeId, qid, mode,
                 genSql, valid, resp, routeOut, prior>>

Next ==
  \E p \in Procs :
     \/ StartQuery(p)
     \/ SchemaConnect(p)
     \/ SchemaFetch(p)
     \/ LLMReturn(p)
     \/ ExecConnect(p)
     \/ ExecSetTimeout(p)
     \/ ExecFetch(p)
     \/ ChartGenerate(p)
     \/ ExplainStart(p)
     \/ ExplainConnect(p)
     \/ ExplainFetch(p)

Spec == Init /\ [][Next]_vars

(***************************************************************************)
(* Executions under fair scheduling: the event loop resumes every call     *)
(* whose awaited operation has completed.                                  *)
(***************************************************************************)
\* one step of call p
Step(p) ==
  \/ StartQuery(p)
  \/ SchemaConnect(p)
  \/ SchemaFetch(p)
  \/ LLMReturn(p)
  \/ ExecConnect(p)
  \/ ExecSetTimeout(p)
  \/ ExecFetch(p)
  \/ ChartGenerate(p)
  \/ ExplainStart(p)
  \/ ExplainConnect(p)
  \/ ExplainFetch(p)

\* one request is followed; the other slots stay unused
InitLive ==
  /\ vIn = <<>>
  /\ vOut = NoValid
  /\ vAgain = NoValid
  /\ vPc = "off"
  /\ provider \in Providers
  /\ nextId = 1
  /\ pc = [p \in Procs |-> IF p = 1 THEN "idle" ELSE "unused"]
  /\ kind = [p \in Procs |-> "none"]
  /\ req = [p \in Procs |-> NoRequest]
  /\ routeId = [p \in Procs |-> 0]
  /\ qid = [p \in Procs |-> 0]
  /\ mode = [p \in Procs |-> "none"]
  /\ genSql = [p \in Procs |-> <<>>]
  /\ valid = [p \in Procs |-> NoValid]
  /\ sent = [p \in Procs |-> <<>>]
  /\ conn = [p \in Procs |-> 0]
  /\ resp = [p \in Procs |-> NoResp]
  /\ routeOut = [p \in Procs |-> NoRouteOut]
  /\ failStage = [p \in Procs |-> "none"]
  /\ prior = [p \in Procs |-> {}]
  /\ answers = [p \in Procs |-> "in time"]
  /\ stages = [p \in Procs |-> <<>>]
  /\ execOut = [p \in Procs |-> NoExecOut]
  /\ CacheConnected
  /\ UnitsIdle

SpecLive == InitLive /\ [][Next]_vars /\ \A p \in Procs : WF_vars(Step(p))

(***************************************************************************)
(* RedisService called on its own, against a store that may go away.       *)
(***************************************************************************)
\* how a command fares: there is no client, the command reaches the store, or
\* it raises; on a closed client the library may reconnect or refuse
Attempts ==
  IF redis = "none" THEN {"no client"}
  ELSE IF ~storeUp THEN {"error"}
  ELSE IF redis = "closed" THEN {"reached", "error"}
  ELSE {"reached"}

\* the except blocks of the cache operations letting the exception out
HandlerReraises == TRUE

\* the except blocks of the cache operations: log, return the default
HandlerRaises == FALSE

\* a cache operation's result when there is no client or the command raised
Defaulted(op, how) ==
  CacheResult(op, redis, storeUp, how = "error" /\ HandlerRaises, PyNone, FALSE, 0)

\* a cache operation's result when the command reached the store
Reached(op, value, ok, count) == CacheResult(op, redis, storeUp, FALSE, value, ok, count)

\* RedisService.connect: the client is created, then the ping succeeds or the
\* handler resets the client and re-raises
Connect ==
  /\ redis' = IF storeUp THEN "open" ELSE "none"
  /\ cacheOut' = CacheResult("connect", redis, storeUp, ~storeUp, PyNone, storeUp, 0)
  /\ UNCHANGED <<storeUp, store, written, harnessVars, pipelineVars>>

\* RedisService.disconnect: the client is closed and kept
Disconnect ==
  /\ redis' = IF redis = "none" THEN "none" ELSE "closed"
  /\ cacheOut' = CacheResult("disconnect", redis, storeUp, FALSE, PyNone, TRUE, 0)
  /\ UNCHANGED <<storeUp, store, written, harnessVars, pipelineVars>>

\* RedisService.set_cache
SetCache(key, value) ==
  /\ \E how \in Attempts :
       IF how = "reached"
         THEN /\ store' = [store EXCEPT ![key] = Serialize(value)]
              /\ written' = [written EXCEPT ![key] = value]
              /\ cacheOut' = Reached("set", PyNone, TRUE, 0)
         ELSE /\ UNCHANGED <<store, written>>
              /\ cacheOut' = Defaulted("set", how)
  /\ UNCHANGED <<redis, storeUp, harnessVars, pipelineVars>>

\* RedisService.get_cache
GetCache(key) ==
  /\ \E how \in Attempts :
       cacheOut' =
         IF how = "reached"
           THEN IF store[key] # Absent
                  THEN Reached("get", Deserialize(store[key]), TRUE, 0)
                  ELSE Reached("get", PyNone, FALSE, 0)
           ELSE Defaulted("get", how)
  /\ UNCHANGED <<redis, storeUp, store, written, harnessVars, pipelineVars>>

\* RedisService.delete_cache
DeleteCache(key) ==
  /\ \E how \in Attempts :
       IF how = "reached"
         THEN /\ store' = [store EXCEPT ![key] = Absent]
              /\ written' = [written EXCEPT ![key] = PyNone]
              /\ cacheOut' = Reached("delete", PyNone, store[key] # Absent, 0)
         ELSE /\ UNCHANGED <<store, written>>
              /\ cacheOut' = Defaulted("delete", how)
  /\ UNCHANGED <<redis, storeUp, harnessVars, pipelineVars>>

\* RedisService.clear_pattern: KEYS, then DELETE of the keys found; the store
\* may go away between the two commands
ClearPattern(pattern) ==
  /\ \E how \in Attempts :
       LET keys == {k \in LiveKeys(store) : PatternCovers(pattern, k)}
       IN IF how = "reached" /\ keys # {}
            THEN \/ /\ store' = [k \in CacheKeys |-> IF k \in keys THEN Absent ELSE store[k]]
                    /\ written' = [k \in CacheKeys |->
                                     IF k \in keys THEN PyNone ELSE written[k]]
                    /\ cacheOut' = Reached("clear", PyNone, TRUE, Cardinality(keys))
                    /\ UNCHANGED storeUp
                 \/ /\ storeUp' = FALSE
                    /\ cacheOut' = Defaulted("clear", "error")
                    /\ UNCHANGED <<store, written>>
            ELSE /\ cacheOut' = IF how = "reached"
                                  THEN Reached("clear", PyNone, FALSE, 0)
                                  ELSE Defaulted("clear", how)
                 /\ UNCHANGED <<store, storeUp, written>>
  /\ UNCHANGED <<redis, harnessVars, pipelineVars>>

\* RedisService.cache_query_result
CacheQueryResult(query_hash, result) ==
  /\ SetCache(QueryCacheKey(query_hash), result)

\* RedisService.get_cached_query
GetCachedQuery(query_hash) ==
  /\ GetCache(QueryCacheKey(query_hash))

\* the store becomes unreachable, or reachable again
StoreOutage ==
  /\ storeUp' = ~storeUp
  /\ UNCHANGED <<redis, store, cacheOut, written, harnessVars, pipelineVars>>

\* an entry reaches the end of its time to live
Expire(key) ==
  /\ store[key] # Absent
  /\ store' = [store EXCEPT ![key] = Absent]
  /\ written' = [written EXCEPT ![key] = PyNone]
  /\ UNCHANGED <<redis, storeUp, cacheOut, harnessVars, pipelineVars>>

\* the service before main.py's startup connects it
InitRedis ==
  /\ vIn = <<>>
  /\ vOut = NoValid
  /\ vAgain = NoValid
  /\ vPc = "off"
  /\ provider = "groq"
  /\ PipelineIdle
  /\ redis = "none"
  /\ storeUp \in BOOLEAN
  /\ store = EmptyStore
  /\ cacheOut = NoCacheResult
  /\ written = NothingWritten
  /\ UnitsIdle

NextRedis ==
  \/ Connect
  \/ Disconnect
  \/ \E k \in CacheKeys, v \in CacheValues : SetCache(k, v)
  \/ \E k \in CacheKeys : GetCache(k)
  \/ \E k \in CacheKeys : DeleteCache(k)
  \/ \E pat \in KeyPatterns : ClearPattern(pat)
  \/ \E h \in QueryHashes, v \in CacheValues : CacheQueryResult(h, v)
  \/ \E h \in QueryHashes : GetCachedQuery(h)
  \/ StoreOutage
  \/ \E k \in CacheKeys : Expire(k)

SpecRedis == InitRedis /\ [][NextRedis]_vars

(***************************************************************************)
(* POST /query against a cache in any condition: connected and empty,      *)
(* holding earlier entries, or unreachable since startup.                  *)
(***************************************************************************)
\* a response or a schema snapshot, as set_cache writes it
SnapshotText == Serialize(PyValue("dict", "{\"rows\": 1}"))

\* the stores a request can find: each key absent or holding an entry
FoundStores == [CacheKeys -> {Absent, SnapshotText}]

InitCached ==
  /\ vIn = <<>>
  /\ vOut = NoValid
  /\ vAgain = NoValid
  /\ vPc = "off"
  /\ provider \in Providers
  /\ PipelineIdle
  /\ storeUp \in BOOLEAN
  /\ redis = IF storeUp THEN "open" ELSE "none"
  /\ store \in FoundStores
  /\ cacheOut = NoCacheResult
  /\ written = NothingWritten
  /\ UnitsIdle

SpecCached == InitCached /\ [][Next]_vars

(***************************************************************************)
(* Properties of validate_query (specification SpecValidate).              *)
(***************************************************************************)
ForbiddenKeywords == MutatingKeywords \cup ExecKeywords

\* the longest forbidden keyword has 8 letters
KeywordSpan == 8

\* a forbidden keyword, in any letter case, stands as a word of s
HasKeywordWord(s) ==
  LET u == Upper(s)
  IN \E i \in 1..Len(s) : \E j \in i..Min(Len(s), i + KeywordSpan - 1) :
        /\ (i = 1 \/ ~IsWordChar(s[i - 1]))
        /\ (j = Len(s) \/ ~IsWordChar(s[j + 1]))
        /\ SubSeq(u, i, j) \in ForbiddenKeywords

\* one of the tokens ; -- /* */ occurs in s
HasSeparatorToken(s) ==
  \E i \in 1..Len(s) : \E j \in i..Min(Len(s), i + 1) : SubSeq(s, i, j) \in SeparatorTokens

\* s, trimmed, begins with SELECT in some letter case
BeginsWithSelect(s) ==
  LET t == Strip(s) IN Len(t) >= Len(SelectKw) /\ Upper(SubSeq(t, 1, Len(SelectKw))) = SelectKw

\* C1: validate_query rejects, with a reason, every SQL text that holds a
\* forbidden keyword as a word (whatever its letter case and the whitespace
\* around it) or one of the tokens ; -- /* */
C1_ForbiddenRejected ==
  (vPc = "validated" /\ (HasKeywordWord(vIn) \/ HasSeparatorToken(vIn)))
    => (~vOut.valid /\ vOut.reason[1] = "forbidden pattern")

\* a SELECT whose forbidden keyword is not in upper case was rejected
C1_Witness ==
  /\ vPc = "validated"
  /\ BeginsWithSelect(vIn)
  /\ HasKeywordWord(vIn)
  /\ ~SearchWord(vIn, ForbiddenKeywords)
  /\ ~HasSeparatorToken(vIn)
  /\ ~vOut.valid

\* C3: validate_query rejects every SQL text that, trimmed, does not begin
\* with SELECT (in any letter case)
C3_NonSelectRejected ==
  (vPc = "validated" /\ ~BeginsWithSelect(vIn)) => ~vOut.valid

\* a text free of forbidden patterns was rejected for not leading with SELECT
C3_Witness ==
  /\ vPc = "validated"
  /\ vIn # <<>>
  /\ ~BeginsWithSelect(vIn)
  /\ ~HasKeywordWord(vIn)
  /\ ~HasSeparatorToken(vIn)
  /\ ~vOut.valid
  /\ vOut.reason[1] = "only SELECT"

\* C4: an accepted text without a LIMIT clause comes back with ' LIMIT 100'
\* appended once, an accepted text with a LIMIT clause comes back unchanged,
\* and so every accepted text has a LIMIT clause
C4_LimitClauseEnsured ==
  (vPc = "validated" /\ vOut.valid)
    => /\ HasLimitClause(vIn) => vOut.sql = vIn
       /\ ~HasLimitClause(vIn) => vOut.sql = vIn \o DefaultLimitSuffix
       /\ HasLimitClause(vOut.sql)

(***************************************************************************)
(* Properties of the pipeline (specification Spec).                        *)
(***************************************************************************)
\* positions of the log of p written by the executor or by explain_query
ExecutorEvents(p) ==
  {k \in DOMAIN sent[p] : sent[p][k].by \in {"execute_query", "explain_query"}}

\* the SQL service has been handed a text in call p
Handed(p) == genSql[p] # <<>>

\* C2: the database receives a generated query only after validate_query
\* accepted it in the same call: what execute_query fetches is exactly the
\* text validate_query returned, what explain_query sends is that text behind
\* the EXPLAIN prefix, the only other statement is the SET statement_timeout
\* command, and a call whose text validate_query rejects opens no connection
\* and sends nothing
C2_OnlyValidatedSent ==
  \A p \in Procs :
     /\ \A k \in ExecutorEvents(p) :
           /\ Handed(p)
           /\ valid[p] = ValidatedSQL[genSql[p]]
           /\ valid[p].valid
           /\ sent[p][k].op = "query" => sent[p][k].text = valid[p].sql
           /\ sent[p][k].op = "explain" => sent[p][k].text = ExplainPrefix \o valid[p].sql
           /\ sent[p][k].op = "set_timeout" => sent[p][k].text = SetTimeoutText
           /\ sent[p][k].op \in {"connect", "close", "query", "explain", "set_timeout"}
     /\ (Handed(p) /\ ~ValidatedSQL[genSql[p]].valid)
          => (ExecutorEvents(p) = {} /\ conn[p] = 0)

\* one call fetched a text that validation had extended by the default limit
\* while another call's text was rejected and left the database untouched
C2_Witness ==
  \E p, o \in Procs :
     /\ kind[p] = "query"
     /\ \E k \in DOMAIN sent[p] :
           /\ sent[p][k].op = "query"
           /\ sent[p][k].text = genSql[p] \o DefaultLimitSuffix
     /\ kind[o] = "explain"
     /\ pc[o] = "done"
     /\ Handed(o)
     /\ ~valid[o].valid
     /\ sent[o] = <<>>

\* C5: every statement execute_query sends carries a row limit of at most
\* 100, and no response holds more than 100 rows
C5_RowsBounded ==
  \A p \in Procs :
     /\ \A k \in DOMAIN sent[p] :
           sent[p][k].op = "query"
             => (HasLimitClause(sent[p][k].text) /\ RowCap(sent[p][k].text) <= DefaultLimit)
     /\ resp[p].has_data => resp[p].rows <= DefaultLimit

\* the stages of the pipeline whose failure a request can meet
FailureStages == {"mode", "dispatch", "schema", "llm", "validation", "execution", "assembly"}

\* C6: process_query always returns a response, and when any stage failed the
\* response has success=false, status FAILED, the request's query_id and an
\* error text
C6_FailureIsResponse ==
  \A p \in Procs :
     (kind[p] = "query" /\ pc[p] = "done")
       => /\ resp[p].status \in {"success", "failed"}
          /\ failStage[p] \in FailureStages
               => /\ resp[p].success = FALSE
                  /\ resp[p].status = "failed"
                  /\ resp[p].query_id = qid[p]
                  /\ qid[p] # 0
                  /\ resp[p].error # ""

\* one request failed in mode determination and another in execution
C6_Witness ==
  \E p, o \in Procs :
     /\ kind[p] = "query" /\ pc[p] = "done" /\ failStage[p] = "mode"
     /\ kind[o] = "query" /\ pc[o] = "done" /\ failStage[o] = "execution"
     /\ ~resp[p].success
     /\ ~resp[o].success

\* the text fails the safety rules: a forbidden keyword or token, or no
\* leading SELECT
Unsafe(s) == HasKeywordWord(s) \/ HasSeparatorToken(s) \/ ~BeginsWithSelect(s)

\* Unsafe on the texts the LLM capability may return
UnsafeGenerated == [s \in GeneratedSQL |-> Unsafe(s)]

\* C7: when the LLM returns SQL that fails validation the request is FAILED
\* at once: the executor opens no connection and sends nothing, and the
\* response has success=false with a SQLValidationError and its reason
C7_InvalidSqlFails ==
  \A p \in Procs :
     (kind[p] = "query" /\ Handed(p) /\ UnsafeGenerated[genSql[p]])
       => /\ pc[p] = "done"
          /\ failStage[p] = "validation"
          /\ ExecutorEvents(p) = {}
          /\ resp[p].success = FALSE
          /\ resp[p].status = "failed"
          /\ resp[p].error_type = "SQLValidationError"
          /\ resp[p].error \in {"Query contains forbidden pattern",
                                "Only SELECT queries are allowed"}

DropTableText ==
  <<"D","R","O","P"," ","T","A","B","L","E"," ","s","a","l","e","s",";"," ","S","E","L","E","C","T"," ","1">>

\* the LLM returned 'DROP TABLE sales; SELECT 1' and the request failed
C7_Witness ==
  \E p \in Procs :
     /\ kind[p] = "query"
     /\ genSql[p] = DropTableText
     /\ pc[p] = "done"
     /\ resp[p].error_type = "SQLValidationError"
     /\ \E k \in DOMAIN sent[p] : sent[p][k].op = "catalog"

\* the stages at which the simple pipeline can fail
SimpleFailureStages == {"schema", "llm", "validation", "execution", "assembly"}

\* C8: a request resolved to advanced mode runs the simple pipeline: it
\* fails only where that pipeline fails, and succeeds when schema fetch, SQL
\* generation, validation, execution and assembly succeed
C8_AdvancedIsSimple ==
  \A p \in Procs :
     (kind[p] = "query" /\ pc[p] = "done" /\ mode[p] = "advanced")
       => (resp[p].success \/ failStage[p] \in SimpleFailureStages)

\* C9: a request has one query_id, generated once, carried by every response
\* it produces, and no two requests share it
C9_OneQueryId ==
  \A p \in Procs :
     (kind[p] = "query" /\ pc[p] = "done")
       => /\ routeId[p] = qid[p]
          /\ resp[p].query_id = qid[p]
          /\ routeOut[p].kind = "response" => routeOut[p].query_id = qid[p]
          /\ \A o \in Procs \ {p} : kind[o] = "query" => qid[o] # qid[p]

\* C10: a second process_query with the same prompt and mode and
\* use_cache=true, made after a first that succeeded, returns the first
\* call's success flag and query, under a different query_id
C10_CachedIdempotence ==
  \A p, o \in Procs :
     ( /\ kind[p] = "query" /\ pc[p] = "done"
       /\ o \in prior[p]
       /\ req[o] = req[p]
       /\ req[p].use_cache
       /\ resp[o].success )
       => /\ resp[p].success = resp[o].success
          /\ resp[p].sql = resp[o].sql
          /\ resp[p].query_id # resp[o].query_id

(***************************************************************************)
(* Properties of the pipeline and the cache (specification SpecCached).    *)
(***************************************************************************)
\* the hash of a request: its prompt and its mode
RequestHash(r) == <<r.prompt, r.mode>>

\* the cache can be read and holds a live entry under the key
Cached(key) == redis # "none" /\ storeUp /\ key \in CacheKeys /\ store[key] # Absent

\* the cache can be written
CacheReachable == redis # "none" /\ storeUp

\* a lookup of the request's hash finds an entry
CacheHit(r) == r.use_cache /\ Cached(QueryCacheKey(RequestHash(r)))

\* positions of the log of p at which the catalog was queried
CatalogEvents(p) == {k \in DOMAIN sent[p] : sent[p][k].op = "catalog"}

\* C11: a request with use_cache=true whose hash has a live cache entry is
\* answered from the cache: it is responded at once, with no schema fetch, no
\* LLM SQL generation, no validation and no database execution
C11_HitSkipsPipeline ==
  \A p \in Procs :
     (kind[p] = "query" /\ CacheHit(req[p]))
       => /\ pc[p] = "done"
          /\ resp[p].success
          /\ sent[p] = <<>>
          /\ genSql[p] = <<>>
          /\ valid[p] = NoValid

\* C12: after a successful process_query with use_cache=true and a reachable
\* cache, the response is stored under the request's hash
C12_SuccessIsCached ==
  \A p \in Procs :
     (kind[p] = "query" /\ pc[p] = "done" /\ resp[p].success
        /\ req[p].use_cache /\ CacheReachable)
       => Cached(QueryCacheKey(RequestHash(req[p])))

\* C13: with a schema snapshot cached the pipeline does not query the
\* catalog, and once a request has queried the catalog the snapshot is in the
\* cache, so that no later request queries the catalog again
C13_SchemaPrefersCache ==
  \A p \in Procs :
     /\ Cached(SchemaCacheKey) => CatalogEvents(p) = {}
     /\ (CatalogEvents(p) # {} /\ pc[p] \notin {"schema_fetch"} /\ failStage[p] # "schema"
           /\ CacheReachable)
          => Cached(SchemaCacheKey)
     /\ \A o \in prior[p] :
           (CatalogEvents(o) # {} /\ failStage[o] # "schema" /\ CacheReachable)
             => CatalogEvents(p) = {}

\* schema fetch, SQL generation, validation and execution all succeeded
StagesSucceeded(p) == pc[p] = "done" /\ failStage[p] \in {"none", "assembly"}

\* C14: with the cache store unreachable, a request whose schema fetch, SQL
\* generation, validation and execution succeed is answered with success
C14_SucceedsWithoutCache ==
  \A p \in Procs :
     (kind[p] = "query" /\ ~CacheReachable /\ StagesSucceeded(p))
       => (resp[p].success /\ resp[p].status = "success")

(***************************************************************************)
(* Properties of RedisService (specification SpecRedis).                   *)
(***************************************************************************)
CacheOps == {"get", "set", "delete", "clear"}

\* the last operation returned its default: None, False or 0
ReturnedDefault ==
  /\ ~cacheOut.raised
  /\ cacheOut.value = PyNone
  /\ cacheOut.ok = FALSE
  /\ cacheOut.count = 0

\* C15 (as amended): no cache operation raises, whatever the state of the
\* client; with no client (never connected, connect failed) or with the store
\* unreachable, get_cache returns None, set_cache and delete_cache return
\* False and clear_pattern returns 0
C15_NeverRaises ==
  cacheOut.op \in CacheOps
    => /\ ~cacheOut.raised
       /\ (cacheOut.client = "none" \/ ~cacheOut.up) => ReturnedDefault

\* get_cache on a connected client found the store unreachable and returned
\* None although an entry was stored under the key
C15_Witness ==
  /\ cacheOut.op = "get"
  /\ cacheOut.client = "open"
  /\ ~cacheOut.up
  /\ ReturnedDefault
  /\ LiveKeys(store) = CacheKeys

\* C15 (as stated): in every state of the client that is not a working
\* connection (never connected, connect failed, store unreachable,
\* disconnected) the operations return None, False and 0
C15_DefaultsWhenDisconnected ==
  cacheOut.op \in CacheOps
    => /\ ~cacheOut.raised
       /\ (cacheOut.client \in {"none", "closed"} \/ ~cacheOut.up) => ReturnedDefault

(***************************************************************************)
(* Properties of execute_query within the pipeline (specifications Spec    *)
(* and SpecLive).                                                          *)
(***************************************************************************)
\* the failures of execute_query that are not timeouts
GenericFailures == {"Database error", "Query execution failed"}

\* the execution of call p ended by a timeout of either layer
TimedOut(p) ==
  /\ kind[p] = "query"
  /\ pc[p] = "done"
  /\ failStage[p] = "execution"
  /\ resp[p].error \in TimeoutTexts

\* C16: an execution that exceeds the timeout, detected by the client-side
\* timer or by the server-side statement timeout, fails with an error type of
\* its own, different from the type raised for a generic driver or database
\* failure
C16_TimeoutHasOwnType ==
  \A p \in Procs :
     TimedOut(p)
       => /\ execOut[p].how = "raised"
          /\ execOut[p].etype \notin {ExecErrorType(f) : f \in GenericFailures}
          /\ resp[p].error_type = execOut[p].etype

CountOps(p, op) == Cardinality({k \in DOMAIN sent[p] : sent[p][k].op = op})

\* C18: every connection acquired through get_raw_connection is released on
\* every exit path: a call holds at most one connection, none between its
\* operations and none once it has ended, so that with no call in progress no
\* connection is open
C18_ConnectionsReleased ==
  \A p \in Procs :
     /\ conn[p] \in {0, 1}
     /\ conn[p] = CountOps(p, "connect") - CountOps(p, "close")
     /\ pc[p] \in {"idle", "schema_connect", "llm", "exec_connect", "chart_llm",
                  "explain_connect", "done"}
          => conn[p] = 0

\* no call is in progress; one has ended on a client-side timeout, another on
\* a failed SET statement_timeout, each after opening connections
C18_Witness ==
  /\ \A p \in Procs : pc[p] = "done" /\ conn[p] = 0
  /\ \E p, o \in Procs :
        /\ resp[p].error = ClientTimeoutText
        /\ CountOps(p, "connect") = 2
        /\ CountOps(o, "set_timeout") = 1
        /\ CountOps(o, "query") = 0
        /\ failStage[o] = "execution"

\* C19: execute_query on a validated query either returns every row the
\* database produced together with its SQLQuery info, or raises
\* SQLExecutionError and returns no row; no other exception type escapes
C19_AllOrNothing ==
  \A p \in Procs :
     (kind[p] = "query" /\ pc[p] = "done" /\ Handed(p) /\ valid[p].valid)
       => \/ /\ execOut[p].how = "returned"
             /\ execOut[p].rows = execOut[p].fetched
             /\ execOut[p].info
             /\ failStage[p] # "execution"
          \/ /\ execOut[p].how = "raised"
             /\ execOut[p].etype = "SQLExecutionError"
             /\ execOut[p].rows = 0
             /\ failStage[p] = "execution"
             /\ ~resp[p].has_data

\* one execution returned the 100 rows its LIMIT let through and another was
\* ended by the client-side timeout
C19_Witness ==
  \E p, o \in Procs :
     /\ execOut[p].how = "returned"
     /\ execOut[p].rows = DefaultLimit
     /\ execOut[o].how = "raised"
     /\ resp[o].error = ClientTimeoutText

\* the stages of the simple pipeline
PipelineStages == {"schema", "llm", "validation", "execution"}

\* the number of times call p entered the stage
Entries(p, stage) == Cardinality({k \in DOMAIN stages[p] : stages[p][k] = stage})

\* C20: within one process_query each of schema fetch, LLM SQL generation,
\* validation and database execution happens at most once, the catalog query
\* and the generated query are each sent at most once, and the first stage
\* that fails is the last one entered: it ends the call
C20_NoRetry ==
  \A p \in Procs :
     kind[p] = "query"
       => /\ \A s \in PipelineStages : Entries(p, s) <= 1
          /\ CountOps(p, "catalog") <= 1
          /\ CountOps(p, "query") <= 1
          /\ CountOps(p, "connect") <= 2
          /\ failStage[p] \in PipelineStages
               => /\ pc[p] = "done"
                  /\ stages[p] # <<>>
                  /\ stages[p][Len(stages[p])] = failStage[p]

\* a call failed in execution after the generated query was sent once, and
\* another failed in validation without entering execution
C20_Witness ==
  \E p, o \in Procs :
     /\ kind[p] = "query" /\ pc[p] = "done" /\ failStage[p] = "execution"
     /\ CountOps(p, "query") = 1
     /\ stages[p] = <<"schema", "llm", "validation", "execution">>
     /\ kind[o] = "query" /\ pc[o] = "done" /\ failStage[o] = "validation"
     /\ stages[o] = <<"schema", "llm", "validation">>

(***************************************************************************)
(* Failed responses and the /query endpoint.                               *)
(***************************************************************************)
\* process_query returned a failed QueryResponse for call p
FailedResponse(p) == kind[p] = "query" /\ pc[p] = "done" /\ ~resp[p].success

\* C21: every failed QueryResponse of process_query carries an error
\* classification (metadata error_type) besides the error message, on every
\* failure path, mode determination and advanced dispatch included
C21_FailureClassified ==
  \A p \in Procs :
     FailedResponse(p) => (resp[p].error # "" /\ resp[p].error_type # "")

\* C22: when the processor's result is a failure the endpoint's response has
\* success=false too, and the endpoint reports success=true only when the
\* processor's result succeeded
C22_EndpointReportsResult ==
  \A p \in Procs :
     (kind[p] = "query" /\ pc[p] = "done")
       => /\ FailedResponse(p)
               => (routeOut[p].kind = "response" /\ ~routeOut[p].success)
          /\ (routeOut[p].kind = "response" /\ routeOut[p].success)
               => resp[p].success

(***************************************************************************)
(* Properties of QueryRequest and _determine_mode (SpecRequest).           *)
(***************************************************************************)
\* _determine_mode returned a mode for the accepted request
ModeResolved == qPc = "resolved" /\ qMode # "raised"

\* C26: a request whose mode is not auto resolves to its own mode; a request
\* of mode auto resolves to advanced exactly when its prompt has more tokens
\* than USE_ADVANCED_MODE_THRESHOLD and to simple otherwise; no request
\* resolves to auto
C26_ModeDetermination ==
  ModeResolved
    => LET r == qOut.request
       IN /\ qMode \in {"simple", "advanced"}
          /\ r.mode # "auto" => qMode = r.mode
          /\ r.mode = "auto"
               => /\ qMode = "advanced" <=> r.prompt.tokens > USE_ADVANCED_MODE_THRESHOLD
                  /\ qMode = "simple" <=> r.prompt.tokens <= USE_ADVANCED_MODE_THRESHOLD

\* an auto request whose prompt has exactly the threshold's number of tokens
\* was resolved to simple
C26_Witness ==
  /\ ModeResolved
  /\ qOut.request.mode = "auto"
  /\ qOut.request.prompt.tokens = USE_ADVANCED_MODE_THRESHOLD
  /\ qMode = "simple"

\* the text left when the whitespace at both ends is removed
Trimmed(text) == PromptText(0, text.core, 0, text.tokens, text.special)

\* QueryRequest(**arguments) has returned or raised
Constructed == qPc \in {"accepted", "rejected", "resolved"}

\* C28: a request is accepted only if its trimmed prompt is non-empty and at
\* most 10000 characters long, the accepted request holds the trimmed prompt,
\* and a prompt of whitespace only is rejected
C28_PromptValidated ==
  Constructed
    => /\ qOut.accepted
            => /\ PromptLen(Trimmed(qIn.prompt)) >= MinPromptLength
               /\ PromptLen(Trimmed(qIn.prompt)) <= MaxPromptLength
               /\ qOut.request.prompt = Trimmed(qIn.prompt)
       /\ (qIn.prompt.core = 0 /\ PromptLen(qIn.prompt) > 0) => ~qOut.accepted

\* a prompt of the greatest length, whitespace at its start included, was
\* accepted and the request holds it without that whitespace
C28_Witness ==
  /\ Constructed
  /\ qOut.accepted
  /\ qIn.prompt.lead > 0
  /\ PromptLen(qIn.prompt) = MaxPromptLength
  /\ qOut.request.prompt # qIn.prompt

(***************************************************************************)
(* A failure of the schema introspector (Spec).                            *)
(***************************************************************************)
\* the catalog query of get_schema_info was sent and failed in call p
CatalogFailed(p) ==
  kind[p] = "query" /\ pc[p] = "done" /\ failStage[p] = "schema" /\ CatalogEvents(p) # {}

\* C25: a failed catalog query is not sent again and ends the request with a
\* failed response; neither the LLM nor the query executor is invoked
C25_CatalogFailureEnds ==
  \A p \in Procs :
     CatalogFailed(p)
       => /\ Cardinality(CatalogEvents(p)) = 1
          /\ resp[p].success = FALSE
          /\ resp[p].status = "failed"
          /\ resp[p].error # ""
          /\ stages[p] = <<"schema">>
          /\ genSql[p] = <<>>
          /\ ExecutorEvents(p) = {}
          /\ execOut[p] = NoExecOut

\* a request ended by a failed catalog query while another request, whose
\* catalog query succeeded, went on to the LLM and the executor
C25_Witness ==
  \E p, o \in Procs :
     /\ CatalogFailed(p)
     /\ ~resp[p].success
     /\ kind[o] = "query" /\ pc[o] = "done"
     /\ ExecutorEvents(o) # {}

(***************************************************************************)
(* Values written to the cache and read back (SpecRedis).                  *)
(***************************************************************************)
\* this step is a get_cache(key) that found an entry
Found(key) == GetCache(key) /\ cacheOut'.op = "get" /\ cacheOut'.ok

\* a dict or a list holding JSON's own types only
JsonTypesOnly(value) == value.t \in {"dict", "list"} /\ value # DatedRow

\* a str that json.loads accepts as a document
IsJsonText(value) == value.t = "str" /\ value.v \in DOMAIN JsonDocuments

\* C27 (as amended): get_cache on a key whose entry has not expired returns a
\* dict or list of JSON types equal to the one written, an int equal to the
\* one written and a str that is no JSON document equal to the one written;
\* a str that is a JSON document is returned parsed, a bool as its text, and
\* a member JSON has no type for as its text
C27_RoundTrip ==
  [][\A k \in CacheKeys :
       Found(k)
         => LET v == written[k]
                r == cacheOut'.value
            IN /\ JsonTypesOnly(v) => r = v
               /\ v.t = "int" => r = v
               /\ (v.t = "str" /\ ~IsJsonText(v)) => r = v
               /\ IsJsonText(v) => (r = JsonDocuments[v.v] /\ r # v)
               /\ v.t = "bool" => r = PyValue("str", v.v)
               /\ v = DatedRow => r = PyValue("dict", DatedRowJson)]_vars

\* a dict was written and get_cache has returned it from the live entry
C27_Witness ==
  /\ cacheOut.op = "get"
  /\ cacheOut.ok
  /\ cacheOut.value = PyValue("dict", "{\"rows\": 1}")
  /\ \E k \in CacheKeys : written[k] = cacheOut.value /\ store[k] # Absent

\* C27 (as stated): whatever value set_cache wrote, dict, list or primitive,
\* a following get_cache on the key returns a value equal to it
C27_EveryValueReadBack ==
  [][\A k \in CacheKeys : Found(k) => cacheOut'.value = written[k]]_vars


\* the generator was gone through in the chart step
Went(generator) == \E i \in DOMAIN cTried : cTried[i] = generator

\* C23: once execute_query has returned rows, a chart step that failed leaves
\* the query successful: the response has success true and the rows executed
C23_ChartFailureContained ==
  (cPc = "done" /\ ChartWanted /\ cChart.fallback_used)
    => /\ cResp.success
       /\ cResp.status = "success"
       /\ cResp.has_data
       /\ cResp.rows = cIn.data.rows

\* C24: when the chart config is not the one the LLM generated, the heuristic
\* config of _create_fallback_config was derived; the emergency config is
\* turned to only after the heuristic config
C24_HeuristicBeforeEmergency ==
  (cPc = "done" /\ ChartWanted)
    => /\ cChart.config # "llm" => Went("heuristic")
       /\ Went("emergency") => Went("heuristic")


\* the check of service c went through and found the service well
WentWell(c) == hHow[c] = "ok"

\* an exception occurred in the check of service c: one the check caught
\* itself, or one that left it and that gather collected
Excepted(c) == hHow[c] \in {"unreachable", "init raises", "cancelled"}

\* C29: check_all returns a status that is 'healthy' or 'unhealthy' and a
\* services map with database and llm entries; the status is 'healthy' exactly
\* when the database and LLM checks went well and so did the check of each
\* optional service whose URL is set; a check in which an exception occurred
\* has an entry that is not healthy and carries the error
C29_CheckAllReport ==
  hAll.returned
    => /\ hAll.status \in {"healthy", "unhealthy"}
       /\ {"status", "services"} \subseteq hAll.keys
       /\ {"database", "llm"} \subseteq DOMAIN hAll.services
       /\ hAll.status = "healthy"
            <=> /\ WentWell("database")
                /\ WentWell("llm")
                /\ hSet.supabase_url => WentWell("supabase")
                /\ hSet.redis_url => WentWell("redis")
       /\ \A c \in Services :
            Excepted(c) => /\ hAll.services[c].dict
                           /\ ~hAll.services[c].healthy
                           /\ {"healthy", "error"} \subseteq hAll.services[c].keys
                           /\ hAll.services[c].error = hOut[c].error

\* check_all returned 'unhealthy' because of an optional service: the database
\* and LLM checks went well, Redis is configured and an exception left its check
C29_Witness ==
  /\ hAll.returned
  /\ hAll.status = "unhealthy"
  /\ WentWell("database")
  /\ WentWell("llm")
  /\ hSet.redis_url
  /\ hHow["redis"] = "cancelled"

\* the check of service c has ended without its task being cancelled
Returned(c) == hPc[c] = "done" /\ hHow[c] # "cancelled"

\* C30: check_database returns a mapping with 'healthy' and with
\* 'response_time_ms' (and 'version' when healthy) or 'error'; check_llm returns
\* a mapping with 'healthy', 'provider' and 'api_key_configured', and with
\* 'model' and 'response_time_ms' when healthy; a database that cannot be
\* reached and an LLM that fails give healthy false with an 'error'
C30_ChecksReturnResults ==
  /\ Returned("database")
       => LET r == hOut["database"]
          IN /\ r.dict
             /\ "healthy" \in r.keys
             /\ "response_time_ms" \in r.keys \/ "error" \in r.keys
             /\ r.healthy => {"response_time_ms", "version"} \subseteq r.keys
             /\ ~WentWell("database") => ~r.healthy /\ "error" \in r.keys
  /\ Returned("llm")
       => LET r == hOut["llm"]
          IN /\ r.dict
             /\ {"healthy", "provider", "api_key_configured"} \subseteq r.keys
             /\ r.healthy => {"model", "response_time_ms"} \subseteq r.keys
             /\ ~WentWell("llm") => ~r.healthy /\ "error" \in r.keys

\* both checks have returned: the database could not be reached and the LLM
\* provider refused the request
C30_Witness ==
  /\ Returned("database")
  /\ hHow["database"] = "unreachable"
  /\ Returned("llm")
  /\ hHow["llm"] = "rejected"


(***************************************************************************)
(* What validate_query returns for the text it accepts (SpecValidate).     *)
(***************************************************************************)
\* C33: for an accepted text the returned SQL is the text itself or the text
\* followed by ' LIMIT 100', in the letter case it was given
C33_OnlySuffixAdded ==
  (vPc \in {"validated", "revalidated"} /\ vOut.valid)
    => \/ vOut.sql = vIn
       \/ vOut.sql = vIn \o <<" ","L","I","M","I","T"," ","1","0","0">>

\* a text with lower-case letters was accepted and got the suffix
C33_Witness ==
  /\ vPc = "validated"
  /\ vOut.valid
  /\ vIn # Upper(vIn)
  /\ vOut.sql # vIn

\* C38: validate_query accepts the SQL it returned and returns it unchanged
C38_Idempotent ==
  vPc = "revalidated" => (vAgain.valid /\ vAgain.sql = vOut.sql)

\* the text validated twice had got ' LIMIT 100' appended the first time
C38_Witness ==
  /\ vPc = "revalidated"
  /\ vOut.sql = vIn \o DefaultLimitSuffix
  /\ vAgain.valid

\* a forbidden keyword, in any letter case, occurs somewhere in s
HasKeywordText(s) == \E k \in ForbiddenKeywords : Contains(Upper(s), k)

\* the keyword patterns (the first two of DANGEROUS_PATTERNS) rejected the text
KeywordRejected ==
  /\ ~vOut.valid
  /\ vOut.reason[1] = "forbidden pattern"
  /\ vOut.reason[2] \in {1, 2}

\* C39: the keyword patterns reject a text exactly when a forbidden keyword
\* stands in it as a whole word: a keyword inside a longer word of letters,
\* digits and underscores is not rejected by them, a keyword standing alone
\* or between quotes is
C39_WholeWordsOnly ==
  vPc \in {"validated", "revalidated"} => (KeywordRejected <=> HasKeywordWord(vIn))

\* a SELECT holding a forbidden keyword only inside a longer word was accepted
C39_Witness ==
  /\ vPc = "validated"
  /\ HasKeywordText(vIn)
  /\ ~HasKeywordWord(vIn)
  /\ vOut.valid


(***************************************************************************)
(* The order of the stages of one request (Spec).                          *)
(***************************************************************************)
\* the stages of _process_simple_query in the order of its code
StageOrder == <<"schema", "llm", "validation", "execution", "chart", "response">>

\* the same without the optional chart step
StageOrderNoChart == <<"schema", "llm", "validation", "execution", "response">>

\* s is the beginning of t
IsPrefix(s, t) == Len(s) <= Len(t) /\ SubSeq(t, 1, Len(s)) = s

\* call p entered the stage
Entered(p, stage) == \E k \in DOMAIN stages[p] : stages[p][k] = stage

\* the stages call p entered are in order, none left out but the chart step,
\* execution only after a validation that accepted, nothing after a stage that
\* failed, and a response that reports success only after the response stage
StagesInOrder(p) ==
  /\ IsPrefix(stages[p], StageOrder) \/ IsPrefix(stages[p], StageOrderNoChart)
  /\ Entered(p, "execution") => valid[p].valid
  /\ Entered(p, "chart") => execOut[p].how = "returned"
  /\ failStage[p] \in PipelineStages
       => (stages[p] # <<>> /\ stages[p][Len(stages[p])] = failStage[p])
  /\ Entered(p, "response") => pc[p] = "done"
  /\ resp[p].success => Entered(p, "response")

\* the request of call p can fail at the await it is suspended at
CanFail(p) ==
  /\ pc[p] = "schema_connect"
       => ENABLED (SchemaConnect(p) /\ failStage'[p] = "schema")
  /\ pc[p] = "schema_fetch"
       => ENABLED (SchemaFetch(p) /\ failStage'[p] = "schema")
  /\ pc[p] = "llm"
       => /\ ENABLED (LLMReturn(p) /\ failStage'[p] = "llm")
          /\ ENABLED (LLMReturn(p) /\ failStage'[p] = "validation")
  /\ pc[p] \in {"exec_connect", "exec_set", "exec_fetch"}
       => ENABLED (Step(p) /\ failStage'[p] = "execution")

\* a call that has ended stays as it is: no stage, no other response
Terminal(p) ==
  pc[p] = "done" => (pc'[p] = "done" /\ stages'[p] = stages[p] /\ resp'[p] = resp[p])

\* C31: within one request the stages are entered in the order schema fetch,
\* SQL generation, validation, execution, chart generation (optional),
\* response, each only after the earlier ones succeeded; the request can fail
\* at every await of the first four; a request that has responded or failed
\* enters no further stage
C31_StageOrder ==
  /\ [](\A p \in Procs : kind[p] = "query" => (StagesInOrder(p) /\ CanFail(p)))
  /\ [][\A p \in Procs : Terminal(p)]_vars

\* one call went through every stage, the chart step included, and responded;
\* another failed in execution and entered no later stage
C31_Witness ==
  \E p, o \in Procs :
     /\ pc[p] = "done" /\ resp[p].success /\ stages[p] = StageOrder
     /\ pc[o] = "done" /\ failStage[o] = "execution"
     /\ stages[o] = <<"schema", "llm", "validation", "execution">>


(***************************************************************************)
(* Termination of a request (SpecLive).                                    *)
(***************************************************************************)
\* process_query has returned a QueryResponse for call p
Answered(p) == resp[p] # NoResp

\* C36: when every collaborator call returns or fails, a process_query call
\* that has started ends with a QueryResponse whose status is success or
\* failed, and the response it returned is its only one
C36_RequestTerminates ==
  /\ \A p \in Procs :
        (kind[p] = "query")
          ~> (pc[p] = "done" /\ Answered(p) /\ resp[p].status \in {"success", "failed"})
  /\ [][\A p \in Procs : Answered(p) => resp'[p] = resp[p]]_vars

\* a request that went through the chart step has ended with a response
C36_Witness ==
  \E p \in Procs :
     /\ pc[p] = "done"
     /\ Entered(p, "chart")
     /\ Answered(p)
     /\ resp[p].status = "success"

(***************************************************************************)
(* The QueryResponse of process_query (Spec).                              *)
(***************************************************************************)
\* C32: a simple-mode request whose schema fetch, SQL generation, validation
\* and execution all succeeded is answered with success=true, status SUCCESS,
\* the rows the executor returned as data and the validated SQL as
\* sql_query.query, whatever the LLM provider
C32_SuccessCarriesRowsAndSql ==
  \A p \in Procs :
     (kind[p] = "query" /\ StagesSucceeded(p))
       => /\ resp[p].success
          /\ resp[p].status = "success"
          /\ resp[p].has_data
          /\ resp[p].rows = execOut[p].rows
          /\ resp[p].has_sql
          /\ resp[p].sql = valid[p].sql

\* C37: in every QueryResponse of process_query success is true exactly when
\* status is SUCCESS and false exactly when it is FAILED; a failed response
\* has no sql_query, data, chart_config or token_usage and has an error; a
\* successful one has no error and has sql_query
C37_ResponseShape ==
  \A p \in Procs :
     (kind[p] = "query" /\ Answered(p))
       => /\ resp[p].success <=> resp[p].status = "success"
          /\ ~resp[p].success <=> resp[p].status = "failed"
          /\ ~resp[p].success
               => /\ ~resp[p].has_sql
                  /\ ~resp[p].has_data
                  /\ ~resp[p].has_chart
                  /\ ~resp[p].has_tokens
                  /\ resp[p].error # ""
          /\ resp[p].success
               => /\ resp[p].error = ""
                  /\ resp[p].has_sql

\* one call was answered with success and a chart, another with the failure
\* of the except block of _process_simple_query
C37_Witness ==
  \E p, o \in Procs :
     /\ kind[p] = "query" /\ resp[p].success /\ resp[p].has_chart
     /\ kind[o] = "query" /\ Answered(o) /\ ~resp[o].success
     /\ resp[o].error_type # ""

(***************************************************************************)
(* Concurrent requests (Spec): each call opens its own connections through *)
(* get_raw_connection and has its own QueryProcessor.                      *)
(***************************************************************************)
\* the connect event that opened the connection event k of call p was sent on
\* (0 when there is none)
OpenedAt(p, k) ==
  LET before == {j \in 1..k : sent[p][j].op = "connect"}
  IN IF before = {} THEN 0 ELSE CHOOSE j \in before : \A i \in before : i <= j

\* every statement and close of call p is sent on a connection that the same
\* operation opened and that has not been closed since
OneOperationPerConnection(p) ==
  \A k \in DOMAIN sent[p] :
     sent[p][k].op # "connect"
       => LET j == OpenedAt(p, k)
          IN /\ j > 0
             /\ sent[p][j].by = sent[p][k].by
             /\ \A i \in (j + 1)..(k - 1) : sent[p][i].op # "close"

\* everything a call has: its request, its position, what it was given and
\* what it sent, holds and answered
Local(p) ==
  <<pc[p], kind[p], req[p], routeId[p], qid[p], mode[p], genSql[p], valid[p], sent[p],
    conn[p], resp[p], routeOut[p], failStage[p], answers[p], stages[p], execOut[p]>>

\* call p has started and not ended
InFlight(p) == pc[p] \notin {"idle", "done"}

\* C34: concurrent requests are independent: every connection is used by one
\* operation of one call between its acquisition and its release, a call in
\* flight can always take its next step whatever the other calls do, and a
\* step of one call changes nothing of another call
C34_RequestsIndependent ==
  /\ [](\A p \in Procs :
          /\ OneOperationPerConnection(p)
          /\ conn[p] \in {0, 1}
          /\ InFlight(p) => ENABLED Step(p))
  /\ [][\A p, o \in Procs : (o # p /\ pc'[o] # pc[o]) => Local(p)' = Local(p)]_vars

\* two calls hold a connection each at the same time, each sending its own
\* statements
C34_Witness ==
  \E p, o \in Procs :
     /\ p # o
     /\ pc[p] = "exec_fetch" /\ conn[p] = 1
     /\ pc[o] = "schema_fetch" /\ conn[o] = 1

(***************************************************************************)
(* The cache client after startup (SpecRedis).                             *)
(***************************************************************************)
\* a set_cache call made now would write its value to the store
CallCanSucceed ==
  ENABLED (\E k \in CacheKeys, v \in CacheValues : SetCache(k, v) /\ cacheOut'.ok)

\* a get_cache or set_cache call made now would replace the client
CallCanReconnect ==
  ENABLED (/\ \/ \E k \in CacheKeys, v \in CacheValues : SetCache(k, v)
              \/ \E k \in CacheKeys : GetCache(k)
           /\ redis' # redis)

\* the startup connect was the service's last operation
JustStarted == cacheOut.op = "connect"

\* C35: the cache client is reconnected lazily: once the store is reachable,
\* after an outage or after the startup connect failed, a get_cache or
\* set_cache call succeeds or brings the client closer to it, without
\* another connect
C35_LazyReconnect ==
  (JustStarted /\ storeUp) => (CallCanSucceed \/ CallCanReconnect)

\* an outage is survived when the client exists: the store came back and a
\* set_cache call wrote to it through the client of the startup connect
OutageSurvived ==
  (cacheOut.op = "set" /\ cacheOut.client = "open" /\ cacheOut.up) => cacheOut.ok

(***************************************************************************)
(* Properties of rate_limit (SpecRate).                                    *)
(***************************************************************************)
\* the calls of client c that were admitted at a time in from..(to - 1)
AdmittedIn(c, from, to) ==
  {k \in DOMAIN rLog :
     /\ rLog[k].client = c
     /\ rLog[k].admitted
     /\ from <= rLog[k].time
     /\ rLog[k].time < to}

\* the earlier admitted calls of the client of call k that were less than
\* RateWindow old when call k was made
OwnRecent(k) ==
  {j \in 1..(k - 1) :
     /\ rLog[j].client = rLog[k].client
     /\ rLog[j].admitted
     /\ rLog[k].time - rLog[j].time < RateWindow}

\* the last call was made by client c
LastCallBy(c) == rLog # <<>> /\ rLog[Len(rLog)].client = c

\* C40: whatever the order of the calls, no client has more than
\* RATE_LIMIT_PER_MINUTE admitted requests in any window of 60 seconds; a
\* call is admitted exactly when fewer than RATE_LIMIT_PER_MINUTE earlier
\* admitted calls of the same client are in its window, so rejected calls
\* and other clients' calls do not count; a rejected call records no time,
\* and a call changes only its own client's record
C40_RateLimited ==
  /\ [](/\ \A c \in Clients : \A from \in 0..MaxClock :
             Cardinality(AdmittedIn(c, from, from + RateWindow)) <= RATE_LIMIT_PER_MINUTE
        /\ \A k \in DOMAIN rLog :
             rLog[k].admitted <=> Cardinality(OwnRecent(k)) < RATE_LIMIT_PER_MINUTE)
  /\ [][\A c \in Clients :
          /\ (LastCallBy(c)' /\ rLog' # rLog /\ ~rLog'[Len(rLog')].admitted)
               => \A t \in 1..Len(request_counts'[c]) :
                     \E u \in 1..Len(request_counts[c]) :
                        request_counts'[c][t] = request_counts[c][u]
          /\ (rLog' # rLog /\ ~LastCallBy(c)') => request_counts'[c] = request_counts[c]]_vars

\* a client at its limit was rejected while the other client, at the same
\* second, was admitted, and was admitted again once its window had passed
C40_Witness ==
  \E i, j, k \in DOMAIN rLog :
     /\ i < k
     /\ rLog[i].client = rLog[k].client
     /\ ~rLog[i].admitted
     /\ rLog[k].admitted
     /\ rLog[j].client # rLog[i].client
     /\ rLog[j].time = rLog[i].time
     /\ rLog[j].admitted
     /\ Cardinality(AdmittedIn(rLog[i].client, 0, MaxClock + 1)) > RATE_LIMIT_PER_MINUTE

====
